---- MODULE Spec2Model ----
(***************************************************************************)
(* Model of the order manager of src/app.py: the row consolidation engine  *)
(* (OrderApp._process_rows, commit_cart, _delete_order_sel,                *)
(* _delete_row_sel), the fuzzy resolver (fuzzy_find) and the order line    *)
(* parser (parse_pasted_order).                                            *)
(***************************************************************************)
EXTENDS Integers, Sequences, FiniteSets, TLC

\* ------------------------------------------------------------------ bounds
MaxOrders == 2      \* most order lines, committed and in the cart together
MaxQty    == 2      \* largest quantity of one order line
MaxContribs == 3    \* contributions made to one bucket in the rows run
MaxCatalog == 3     \* most catalog entries fuzzy_find is run on
MaxPad    == 11     \* longest run of filler characters in front of a name
MaxLimit  == 2      \* largest limit fuzzy_find is called with
MaxText   == 4      \* longest free text parse_pasted_order is run on
MaxFiles  == 2      \* most files of the prices folder
MaxRows   == 2      \* most rows read from one file after its header

Keys  == {"k1", "k2"}
Nicks == {"A", "B"}
\* what the nick field can hold: a nick, nothing, blanks
NickTexts == Nicks \cup {"", " "}
\* nick_var.get().strip()
StripNick(t) == IF t = " " THEN "" ELSE t
\* int() in load_price_files and save_price_item accepts any integer: 0 included
StdQtys == 0..(MaxQty + 1)
\* a unit price as the application tells prices apart: 1 stands for any
\* price > 0, 0 for a price that is not
Prices == {0, 1}

VARIABLES
    price_list,   \* OrderApp.price_list: key -> [std_qty, price]
    orders,       \* OrderApp.orders: sequence of [idx, nick, key, quantity]
    rows_items,   \* OrderApp.rows_items: key -> sequence of [nick, quantity]
    cart,         \* OrderApp.cart: sequence of [key, quantity, std_qty, price]
    hung,         \* TRUE when a handler is inside a loop that does not end
    save_file,    \* SAVE_FILE on disk: [exists, orders, rows_items]
    bucket,       \* rows run: the bucket list _process_rows works on
    std_qty,      \* rows run: its local std_qty
    pcRows,       \* rows run: "idle" | "loop" (inside while True)
    todo,         \* rows run: contributions still to be made
    made,         \* rows run: contributions made so far, oldest first
    passes,       \* rows run: while-iterations that ran the walk in this call
    query,        \* fuzzy_find: its query argument
    names,        \* fuzzy_find: item["name"] of price_list, in iteration order
    limit,        \* fuzzy_find: its limit argument
    hits,         \* fuzzy_find: the returned items, as catalog positions
    pcFuzzy,      \* fuzzy_find: "call" | "done"
    text,         \* parse_pasted_order: its text argument
    parts,        \* parse_pasted_order: the fields the text was written from
    parsed,       \* parse_pasted_order: the returned result list
    skipped,      \* parse_pasted_order: the returned skipped list
    pcParse,      \* parse_pasted_order: "call" | "done" | "raised"
    result,       \* load_price_files: the dict it builds, key -> entry
    nfiles,       \* load_price_files: the files of the folder, in sorted order
    fpath,        \* load_price_files: the position of the file it is at
    opened,       \* load_price_files: what became of that file
    header_row,   \* load_price_files: the header row found in that file
    col_map,      \* load_price_files: the columns of that file's header
    rowNo,        \* load_price_files: the rows of that file read so far
    row,          \* load_price_files: the row read last
    pcLoad        \* load_price_files: "idle" | "files" | "rows" | "done"

appVars  == <<price_list, orders, rows_items, cart, hung, save_file>>
rowsVars == <<bucket, std_qty, pcRows, todo, made, passes>>
fuzzyVars == <<query, names, limit, hits, pcFuzzy>>
parseVars == <<text, parts, parsed, skipped, pcParse>>
loadVars == <<result, nfiles, fpath, opened, header_row, col_map, rowNo, row,
              pcLoad>>
vars     == <<price_list, orders, rows_items, cart, hung, save_file,
              bucket, std_qty, pcRows, todo, made, passes,
              query, names, limit, hits, pcFuzzy,
              text, parts, parsed, skipped, pcParse,
              result, nfiles, fpath, opened, header_row, col_map, rowNo, row,
              pcLoad>>

\* SAVE_FILE does not exist
NoSaveFile ==
    [exists |-> FALSE, orders |-> <<>>, rows_items |-> [k \in {} |-> <<>>]]

\* the parts of the state a run does not use
AppIdle ==
    /\ price_list = [k \in {} |-> <<>>] /\ orders = <<>>
    /\ rows_items = [k \in {} |-> <<>>] /\ cart = <<>> /\ hung = FALSE
    /\ save_file = NoSaveFile

RowsIdle ==
    /\ bucket = <<>> /\ std_qty = 0 /\ pcRows = "idle" /\ todo = <<>>
    /\ made = <<>> /\ passes = 0

FuzzyIdle ==
    /\ query = <<>> /\ names = <<>> /\ limit = 0 /\ hits = <<>>
    /\ pcFuzzy = "done"

ParseIdle ==
    /\ text = <<>> /\ parts = [kind |-> "none"] /\ parsed = <<>>
    /\ skipped = <<>> /\ pcParse = "done"

LoadIdle ==
    /\ result = [k \in {} |-> <<>>] /\ nfiles = 0 /\ fpath = 0
    /\ opened = "none" /\ header_row = <<>> /\ col_map = [mode |-> "none"]
    /\ rowNo = 0 /\ row = <<>> /\ pcLoad = "idle"

\* ----------------------------------------------------------------- helpers
EmptyMap == [k \in {} |-> <<>>]

Put(m, k, v) == [x \in (DOMAIN m) \cup {k} |-> IF x = k THEN v ELSE m[x]]

Remove(m, k) == [x \in (DOMAIN m) \ {k} |-> m[x]]

RECURSIVE Total(_)
\* sum(r["quantity"] for r in bucket)
Total(b) == IF b = <<>> THEN 0 ELSE Head(b).quantity + Total(Tail(b))

RECURSIVE SeqsUpTo(_, _)
SeqsUpTo(S, n) ==
    IF n = 0 THEN {<<>>}
    ELSE LET shorter == SeqsUpTo(S, n - 1) IN
         shorter \cup {Append(s, x) : s \in {t \in shorter : Len(t) = n - 1}, x \in S}

\* --------------------------------------------------- _process_rows (pure)
RECURSIVE WalkBug(_, _, _)
\* the walk without the partial consumption: the crossing contribution is
\* removed whole
WalkBug(rest, consumed, std) ==
    IF rest = <<>> \/ consumed >= std THEN rest
    ELSE WalkBug(Tail(rest), consumed + Head(rest).quantity, std)

RECURSIVE Walk(_, _, _)
\* the for loop of one pass with the pops that follow it: what is left of the
\* bucket `rest` when `consumed` units are already taken
Walk(rest, consumed, std) ==
    IF rest = <<>> THEN <<>>
    ELSE IF consumed >= std THEN rest
    ELSE LET r == Head(rest)
             need == std - consumed
         IN IF r.quantity <= need
            THEN Walk(Tail(rest), consumed + r.quantity, std)
            ELSE <<[r EXCEPT !.quantity = @ - need]>> \o Tail(rest)

ConsolidationPassBug(b, std) == WalkBug(b, 0, std)

\* one iteration of `while True` past the break
ConsolidationPass(b, std) == Walk(b, 0, std)

LoopExitBug(b, std) == Total(b) <= std

\* `if total_acc < std_qty: break`
LoopExit(b, std) == Total(b) < std

RECURSIVE Consolidate(_, _)
\* the whole `while True` loop: [bucket, hang]; an iteration that leaves the
\* bucket as it was is repeated forever
Consolidate(b, std) ==
    IF LoopExit(b, std) THEN [bucket |-> b, hang |-> FALSE]
    ELSE LET nb == ConsolidationPass(b, std) IN
         IF nb = b THEN [bucket |-> b, hang |-> TRUE]
         ELSE Consolidate(nb, std)

Contribution(order) == [nick |-> order.nick, quantity |-> order.quantity]

\* _process_rows that keeps no bucket but the one of its key
process_rows_spill(rows, pl, key, order) ==
    LET b0 == Append(IF key \in DOMAIN rows THEN rows[key] ELSE <<>>,
                     Contribution(order))
        r  == Consolidate(b0, pl[key].std_qty)
    IN [rows  |-> IF r.bucket = <<>> /\ ~r.hang THEN EmptyMap
                  ELSE Put(EmptyMap, key, r.bucket),
        order |-> order,
        hang  |-> r.hang]

\* _process_rows whose bucket entry is the order record itself
process_rows_alias(rows, pl, key, order) ==
    LET b0 == Append(IF key \in DOMAIN rows THEN rows[key] ELSE <<>>,
                     Contribution(order))
        r  == Consolidate(b0, pl[key].std_qty)
        q  == IF r.bucket = <<>> THEN 0 ELSE r.bucket[Len(r.bucket)].quantity
    IN [rows  |-> IF r.bucket = <<>> /\ ~r.hang THEN Remove(rows, key)
                  ELSE Put(rows, key, r.bucket),
        order |-> [order EXCEPT !.quantity = q],
        hang  |-> r.hang]

\* _process_rows without `if not bucket: del self.rows_items[key]`
process_rows_keep_empty(rows, pl, key, order) ==
    LET b0 == Append(IF key \in DOMAIN rows THEN rows[key] ELSE <<>>,
                     Contribution(order))
        r  == Consolidate(b0, pl[key].std_qty)
    IN [rows  |-> Put(rows, key, r.bucket),
        order |-> order,
        hang  |-> r.hang]

\* _process_rows(key, order): the bucket map after the call, the order record
\* after the call (the bucket holds a copy), and whether the call hangs
process_rows(rows, pl, key, order) ==
    LET b0 == Append(IF key \in DOMAIN rows THEN rows[key] ELSE <<>>,
                     Contribution(order))
        r  == Consolidate(b0, pl[key].std_qty)
    IN [rows  |-> IF r.bucket = <<>> /\ ~r.hang THEN Remove(rows, key)
                  ELSE Put(rows, key, r.bucket),
        order |-> order,
        hang  |-> r.hang]

\* ---------------------------------------------------------------- rows run
\* no call that returns needs more passes: each pass of such a call consumes
\* at least one of the at most MaxContribs * MaxQty pending units
PassCap == MaxContribs * MaxQty

\* _process_rows taken one while-iteration at a time, on one bucket
RowsInit ==
    /\ bucket = <<>>
    /\ std_qty \in StdQtys
    /\ pcRows = "idle"
    /\ todo \in SeqsUpTo([nick : Nicks, quantity : 0..MaxQty], MaxContribs)
    /\ made = <<>>
    /\ passes = 0
    /\ AppIdle /\ FuzzyIdle /\ ParseIdle /\ LoadIdle

\* lines 945-948: setdefault, append, read std_qty
RowsAppend ==
    /\ pcRows = "idle" /\ todo # <<>>
    /\ bucket' = Append(bucket, Head(todo))
    /\ made' = Append(made, Head(todo))
    /\ todo' = Tail(todo)
    /\ passes' = 0
    /\ pcRows' = "loop"
    /\ UNCHANGED <<std_qty>>
    /\ UNCHANGED <<appVars, fuzzyVars, parseVars, loadVars>>

\* lines 949-966: one iteration that does not break
RowsPass ==
    /\ pcRows = "loop" /\ ~LoopExit(bucket, std_qty)
    /\ passes <= PassCap
    /\ bucket' = ConsolidationPass(bucket, std_qty)
    /\ passes' = passes + 1
    /\ UNCHANGED <<std_qty, pcRows, todo, made>>
    /\ UNCHANGED <<appVars, fuzzyVars, parseVars, loadVars>>

\* lines 950-951 and 967-969: break, drop the empty bucket, return
RowsReturn ==
    /\ pcRows = "loop" /\ LoopExit(bucket, std_qty)
    /\ pcRows' = "idle"
    /\ UNCHANGED <<bucket, std_qty, todo, made, passes>>
    /\ UNCHANGED <<appVars, fuzzyVars, parseVars, loadVars>>

RowsNext == RowsAppend \/ RowsPass \/ RowsReturn

SpecRows == RowsInit /\ [][RowsNext]_vars


\* ------------------------------------------------- claims on the rows run
RECURSIVE DropUnits(_, _)
\* the sequence s with its oldest n units taken from the front
DropUnits(s, n) ==
    IF n = 0 \/ s = <<>> THEN s
    ELSE IF Head(s).quantity <= n THEN DropUnits(Tail(s), n - Head(s).quantity)
    ELSE <<[Head(s) EXCEPT !.quantity = @ - n]>> \o Tail(s)

Returned == pcRows = "idle" /\ made # <<>>

\* C1: when contribute returns, for a standard pack quantity >= 1 and
\* quantities >= 0, the quantities left in the bucket sum to strictly less
\* than the standard pack quantity, also when one contribution crossed the
\* threshold several times.
C1_BelowThresholdAtReturn ==
    (Returned /\ std_qty >= 1) => Total(bucket) < std_qty

\* a call has returned after two passes or more
C1_Witness ==
    Returned /\ std_qty >= 1 /\ passes >= 2

\* C2: consumption is FIFO: contributions of quantity >= 1 made in order to
\* an absent bucket with pack size S >= 1 and total T leave the sequence of
\* the contributions with its oldest floor(T/S)*S units removed from the
\* front.
C2_Fifo ==
    (Returned /\ std_qty >= 1 /\ \A i \in 1..Len(made) : made[i].quantity >= 1)
        => bucket = DropUnits(made, (Total(made) \div std_qty) * std_qty)

\* the spec's example scaled to the bounds: S = 3 and A:1, B:1, C:2 leave C:1
C2_Witness ==
    /\ Returned /\ std_qty = 3
    /\ made = <<[nick |-> "A", quantity |-> 1], [nick |-> "B", quantity |-> 1],
                [nick |-> "A", quantity |-> 2]>>
    /\ bucket = <<[nick |-> "A", quantity |-> 1]>>

\* C6: every contribute call terminates: a call made by commit or rebuild
\* (the quantity differs from the pack quantity) that has not returned can
\* always take its next step, for every standard pack quantity a catalog
\* entry can hold. (No returning call reaches PassCap passes.)
C6_Terminates ==
    (pcRows = "loop" /\ made[Len(made)].quantity # std_qty) => ENABLED RowsNext


\* -------------------------------------------------------------- fuzzy_find
\* strings are sequences of one-character strings
\* Cyrillic letters are written "c" + their transliteration ("cg" is the
\* letter ge, "csh" sha, "ct" te), their capitals in capitals
LowerChar(c) ==
    CASE c = "A" -> "a" [] c = "B" -> "b" [] c = "X" -> "x"
      [] c = "CG" -> "cg" [] c = "CSH" -> "csh" [] c = "CT" -> "ct"
      [] c = "Naimenov" -> "naimenov" [] c = "Cena" -> "cena"
      [] c = "Massa" -> "massa" [] c = "Shtuk" -> "shtuk"
      [] OTHER -> c

\* str.lower()
Lower(s) == [i \in 1..Len(s) |-> LowerChar(s[i])]

RECURSIVE LStrip(_)
LStrip(s) == IF s # <<>> /\ Head(s) = " " THEN LStrip(Tail(s)) ELSE s

RECURSIVE RStrip(_)
RStrip(s) ==
    IF s # <<>> /\ s[Len(s)] = " " THEN RStrip(SubSeq(s, 1, Len(s) - 1)) ELSE s

\* str.strip()
Strip(s) == RStrip(LStrip(s))

\* does q occur in n at the 0-based index i
OccursAt(q, n, i) ==
    /\ i + Len(q) <= Len(n)
    /\ \A d \in 1..Len(q) : n[i + d] = q[d]

\* `q in n`
Contains(q, n) == \E i \in 0..Len(n) : OccursAt(q, n, i)

\* n.index(q), for q in n
IndexOf(q, n) ==
    CHOOSE i \in 0..Len(n) :
        OccursAt(q, n, i) /\ \A j \in 0..(i - 1) : ~OccursAt(q, n, j)

RECURSIVE CommonLen(_, _, _, _, _, _)
\* the length of the longest common run of a[i:ahi] and b[j:bhi] from i and j
CommonLen(a, b, i, j, ahi, bhi) ==
    IF i < ahi /\ j < bhi /\ a[i + 1] = b[j + 1]
    THEN 1 + CommonLen(a, b, i + 1, j + 1, ahi, bhi)
    ELSE 0

\* SequenceMatcher.find_longest_match without junk: the longest block, of
\* those the one starting earliest in a, of those the earliest in b
find_longest_match(a, b, alo, ahi, blo, bhi) ==
    LET cands == (alo..(ahi - 1)) \X (blo..(bhi - 1))
        size(c) == CommonLen(a, b, c[1], c[2], ahi, bhi)
        best == {c \in cands : \A d \in cands : size(d) <= size(c)}
        first == CHOOSE c \in best :
                    \A d \in best : c[1] < d[1] \/ (c[1] = d[1] /\ c[2] <= d[2])
    IN IF cands = {} \/ \A c \in cands : size(c) = 0
       THEN [i |-> alo, j |-> blo, k |-> 0]
       ELSE [i |-> first[1], j |-> first[2], k |-> size(first)]

RECURSIVE matching_size(_, _, _, _, _, _)
\* the sum of the sizes of SequenceMatcher.get_matching_blocks
matching_size(a, b, alo, ahi, blo, bhi) ==
    LET m == find_longest_match(a, b, alo, ahi, blo, bhi) IN
    IF m.k = 0 THEN 0
    ELSE m.k
         + (IF alo < m.i /\ blo < m.j
            THEN matching_size(a, b, alo, m.i, blo, m.j) ELSE 0)
         + (IF m.i + m.k < ahi /\ m.j + m.k < bhi
            THEN matching_size(a, b, m.i + m.k, ahi, m.j + m.k, bhi) ELSE 0)

\* SequenceMatcher(None, a, b).ratio() as the fraction num/den
ratio(a, b) ==
    IF Len(a) + Len(b) = 0 THEN [num |-> 1, den |-> 1]
    ELSE [num |-> 2 * matching_size(a, b, 0, Len(a), 0, Len(b)),
          den |-> Len(a) + Len(b)]

\* `ratio > 0.42`
AboveThreshold(r) == 100 * r.num > 42 * r.den

\* `1 - ratio + 10` as a fraction
SimilarityKey(r) == [num |-> 11 * r.den - r.num, den |-> r.den]

\* the rank key of an entry, as a fraction; [keep |-> FALSE] for no match
RankKey(q, name) ==
    LET name_low == Lower(name) IN
    IF Contains(q, name_low)
    THEN [keep |-> TRUE, num |-> IndexOf(q, name_low), den |-> 1]
    ELSE LET r == ratio(q, name_low) IN
         IF AboveThreshold(r)
         THEN [keep |-> TRUE, num |-> SimilarityKey(r).num,
               den |-> SimilarityKey(r).den]
         ELSE [keep |-> FALSE, num |-> 0, den |-> 1]

KeyLess(x, y) == x.num * y.den < y.num * x.den

RECURSIVE InsertSortedBug(_, _)
\* an insertion that puts the entry in front of the entries of equal key
InsertSortedBug(sorted, e) ==
    IF sorted = <<>> THEN <<e>>
    ELSE IF KeyLess(Head(sorted), e)
         THEN <<Head(sorted)>> \o InsertSortedBug(Tail(sorted), e)
         ELSE <<e>> \o sorted

RECURSIVE InsertSorted(_, _)
\* list.sort(key=...) is stable: an entry goes behind the entries of equal key
InsertSorted(sorted, e) ==
    IF sorted = <<>> THEN <<e>>
    ELSE IF KeyLess(e, Head(sorted)) THEN <<e>> \o sorted
    ELSE <<Head(sorted)>> \o InsertSorted(Tail(sorted), e)

RECURSIVE SortedOut(_, _, _)
\* lines 269-277: the list `out` of the entries from position i on, sorted
SortedOut(q, nms, i) ==
    IF i = 0 THEN <<>>
    ELSE LET k == RankKey(q, nms[i])
             before == SortedOut(q, nms, i - 1)
         IN IF k.keep
            THEN InsertSorted(before, [num |-> k.num, den |-> k.den, pos |-> i])
            ELSE before

\* fuzzy_find(query, price_list, limit): the positions of the returned items
fuzzy_find(qry, nms, lim) ==
    IF qry = <<>> \/ nms = <<>> THEN <<>>
    ELSE LET out == SortedOut(Strip(Lower(qry)), nms, Len(nms))
             n   == IF Len(out) < lim THEN Len(out) ELSE lim
         IN [i \in 1..n |-> out[i].pos]

Pad(n) == [i \in 1..n |-> "z"]

Cores == {<<"a">>, <<"b", "a">>, <<"A", "b">>}

NameSet == {Pad(n) \o c : n \in {0, MaxPad}, c \in Cores}

QuerySet == {<<>>, <<" ">>, <<"a">>, <<"a", "b">>, <<"A", "B">>, <<" ", "a">>,
             <<"b", "b">>}

FuzzyInit ==
    /\ query \in QuerySet
    /\ names \in SeqsUpTo(NameSet, MaxCatalog)
    /\ limit \in 1..MaxLimit
    /\ hits = <<>>
    /\ pcFuzzy = "call"
    /\ AppIdle /\ RowsIdle /\ ParseIdle /\ LoadIdle

fuzzy_call ==
    /\ pcFuzzy = "call"
    /\ hits' = fuzzy_find(query, names, limit)
    /\ pcFuzzy' = "done"
    /\ UNCHANGED <<query, names, limit>>
    /\ UNCHANGED <<appVars, rowsVars, parseVars, loadVars>>

SpecFuzzy == FuzzyInit /\ [][fuzzy_call]_vars

\* ---------------------------------------------------- claims on fuzzy_find
QueryLow == Strip(Lower(query))

IsSubstringMatch(i) == Contains(QueryLow, Lower(names[i]))

IsSimilarityMatch(i) ==
    ~IsSubstringMatch(i) /\ AboveThreshold(ratio(QueryLow, Lower(names[i])))

\* C7: in the returned list every entry matched only by similarity comes
\* after every entry whose name contains the query, whatever the position of
\* the substring inside the name.
C7_SubstringBeforeSimilarity ==
    pcFuzzy = "done" =>
        \A x \in 1..Len(hits), y \in 1..Len(hits) :
            (IsSimilarityMatch(hits[x]) /\ IsSubstringMatch(hits[y])) => y < x

\* C8: the result holds at most limit entries, in ascending rank key with
\* entries of equal key in catalog order; it is the head of the list of all
\* the matching entries; no entry that is neither a substring match nor of
\* ratio > 0.42 appears; an empty query or catalog yields the empty list.
C8_SortedStableLimited ==
    pcFuzzy = "done" =>
        LET key(i) == RankKey(QueryLow, names[i])
            matching == {i \in 1..Len(names) : IsSubstringMatch(i) \/ IsSimilarityMatch(i)}
            ahead(i, j) == KeyLess(key(i), key(j))
                           \/ (~KeyLess(key(j), key(i)) /\ i < j)
        IN /\ Len(hits) <= limit
           /\ \A x \in 1..Len(hits) : hits[x] \in matching
           /\ \A x \in 1..Len(hits), y \in 1..Len(hits) :
                 x < y => ahead(hits[x], hits[y])
           /\ (query # <<>> /\ names # <<>>) =>
                 /\ Len(hits) = IF Cardinality(matching) < limit
                                THEN Cardinality(matching) ELSE limit
                 /\ \A i \in matching :
                       (\A x \in 1..Len(hits) : hits[x] # i) =>
                           \A x \in 1..Len(hits) : ahead(hits[x], i)
           /\ (query = <<>> \/ names = <<>>) => hits = <<>>

\* three entries match, two with the same rank key, and the limit cuts one
C8_Witness ==
    /\ pcFuzzy = "done" /\ Len(names) = 3 /\ limit = 2 /\ Len(hits) = 2
    /\ \A i \in 1..3 : IsSubstringMatch(i) \/ IsSimilarityMatch(i)
    /\ \E i \in 1..3 : IsSimilarityMatch(i)
    /\ RankKey(QueryLow, names[hits[1]]).num = RankKey(QueryLow, names[hits[2]]).num
    /\ RankKey(QueryLow, names[hits[1]]).den = RankKey(QueryLow, names[hits[2]]).den

\* ---------------------------------------------------------------- the app
\* a deletion that leaves the indexes of the remaining orders as they were
Renumber_stale(ords) == ords

\* for i, o in enumerate(self.orders): o["idx"] = i
Renumber(ords) == [i \in 1..Len(ords) |-> [ords[i] EXCEPT !.idx = i - 1]]

RECURSIVE rebuild_from(_, _, _, _)
\* lines 1591-1596 from position j on: [rows, orders, hang]
rebuild_from(rows, ords, pl, j) ==
    IF j > Len(ords) THEN [rows |-> rows, orders |-> ords, hang |-> FALSE]
    ELSE LET o == ords[j] IN
         IF o.key \in DOMAIN pl /\ o.quantity # pl[o.key].std_qty
         THEN LET r == process_rows(rows, pl, o.key, o) IN
              IF r.hang
              THEN [rows |-> r.rows, orders |-> [ords EXCEPT ![j] = r.order],
                    hang |-> TRUE]
              ELSE rebuild_from(r.rows, [ords EXCEPT ![j] = r.order], pl, j + 1)
         ELSE rebuild_from(rows, ords, pl, j + 1)

\* lines 1589-1596: self.rows_items.clear(), then the replay of every order
rebuild(ords, pl) == rebuild_from(EmptyMap, ords, pl, 1)

RECURSIVE commit_lines_overwrite(_, _, _)
\* a commit that writes the catalog entry of every cart line
commit_lines_overwrite(st, lines, nick) ==
    IF lines = <<>> \/ st.hang THEN st
    ELSE LET ci    == Head(lines)
             pl1   == Put(st.pl, ci.key, [std_qty |-> ci.std_qty,
                                          price |-> ci.price])
             order == [idx |-> Len(st.orders), nick |-> nick, key |-> ci.key,
                       quantity |-> ci.quantity]
             r     == IF ci.quantity # ci.std_qty
                      THEN process_rows(st.rows, pl1, ci.key, order)
                      ELSE [rows |-> st.rows, order |-> order, hang |-> FALSE]
         IN commit_lines_overwrite(
                [pl |-> pl1, orders |-> Append(st.orders, r.order),
                 rows |-> r.rows, hang |-> r.hang],
                Tail(lines), nick)

RECURSIVE commit_lines(_, _, _)
\* lines 831-856: the loop over the cart, on st = [pl, orders, rows, hang]
commit_lines(st, lines, nick) ==
    IF lines = <<>> \/ st.hang THEN st
    ELSE LET ci    == Head(lines)
             pl1   == IF ci.key \in DOMAIN st.pl THEN st.pl
                      ELSE Put(st.pl, ci.key, [std_qty |-> ci.std_qty,
                                               price |-> ci.price])
             order == [idx |-> Len(st.orders), nick |-> nick, key |-> ci.key,
                       quantity |-> ci.quantity]
             r     == IF ci.quantity # ci.std_qty
                      THEN process_rows(st.rows, pl1, ci.key, order)
                      ELSE [rows |-> st.rows, order |-> order, hang |-> FALSE]
         IN commit_lines([pl |-> pl1, orders |-> Append(st.orders, r.order),
                          rows |-> r.rows, hang |-> r.hang],
                         Tail(lines), nick)

\* what load_price_files can return: rows with a price > 0 and any std_qty
CatalogsOfLoad ==
    UNION {[D -> [std_qty : StdQtys, price : {p \in Prices : p > 0}]] :
             D \in SUBSET Keys}

Init ==
    /\ price_list \in CatalogsOfLoad
    /\ orders = <<>>
    /\ rows_items = EmptyMap
    /\ cart = <<>>
    /\ hung = FALSE
    /\ save_file = NoSaveFile
    /\ RowsIdle /\ FuzzyIdle /\ ParseIdle /\ LoadIdle

\* _save_orders: what json.dump writes to SAVE_FILE
saved_orders(ords, rows) ==
    [exists |-> TRUE, orders |-> ords, rows_items |-> rows]

\* the characters \d matches
Digits == {"0", "1", "2", "3", "4", "5", "6", "7", "8", "9"}

DigitVal(c) ==
    CASE c = "0" -> 0 [] c = "1" -> 1 [] c = "2" -> 2 [] c = "3" -> 3
      [] c = "4" -> 4 [] c = "5" -> 5 [] c = "6" -> 6 [] c = "7" -> 7
      [] c = "8" -> 8 [] c = "9" -> 9

RECURSIVE IntOf(_)
\* int(d) for a run of digits
IntOf(d) ==
    IF d = <<>> THEN 0 ELSE 10 * IntOf(SubSeq(d, 1, Len(d) - 1)) + DigitVal(d[Len(d)])

\* re.sub(r"[^\d]", "", qty_raw): the digits of the text, in order
DigitsOnly(t) == SelectSeq(t, LAMBDA c : c \in Digits)

\* lines 784-787: the quantity is accepted when int() of the digits that are
\* left does not raise and is > 0
QtyAccepted(qty_raw) ==
    /\ DigitsOnly(qty_raw) # <<>>
    /\ IntOf(DigitsOnly(qty_raw)) > 0

\* the text of a one-digit number
DigitText(n) ==
    CASE n = 0 -> "0" [] n = 1 -> "1" [] n = 2 -> "2" [] n = 3 -> "3"
      [] n = 4 -> "4" [] n = 5 -> "5" [] n = 6 -> "6" [] n = 7 -> "7"
      [] n = 8 -> "8" [] OTHER -> "9"

\* what the quantity field can hold: a number, nothing, a word, a negative
\* number, a fraction
QtyTexts ==
    {<<DigitText(n)>> : n \in 0..MaxQty}
      \cup {<<>>, <<"x">>}
      \cup {<<"-", DigitText(n)>> : n \in 1..MaxQty}
      \cup {<<"0", ".", DigitText(n)>> : n \in 1..MaxQty}

\* add_to_cart: the quantity text is accepted and the item is found in the
\* catalog
add_to_cart(k, qty_raw) ==
    /\ ~hung
    /\ QtyAccepted(qty_raw)
    /\ k \in DOMAIN price_list
    /\ Len(orders) + Len(cart) < MaxOrders
    /\ cart' = Append(cart, [key |-> k,
                             quantity |-> IntOf(DigitsOnly(qty_raw)),
                             std_qty |-> price_list[k].std_qty,
                             price |-> price_list[k].price])
    /\ UNCHANGED <<price_list, orders, rows_items, hung, save_file>>
    /\ UNCHANGED <<rowsVars, fuzzyVars, parseVars, loadVars>>

\* the effect of commit_cart on the cart `lines`
CommitEffect(lines, nick) ==
    LET st == commit_lines([pl |-> price_list, orders |-> orders,
                            rows |-> rows_items, hang |-> FALSE], lines, nick)
    IN /\ price_list' = st.pl
       /\ orders' = st.orders
       /\ rows_items' = st.rows
       /\ hung' = st.hang
       /\ cart' = IF st.hang THEN lines ELSE <<>>
       /\ save_file' = IF st.hang THEN save_file
                       ELSE saved_orders(st.orders, st.rows)

\* commit_cart with the text t in the nick field: the early returns of
\* lines 823-829, or the loop over the cart
commit_cart(t) ==
    /\ ~hung
    /\ IF StripNick(t) = "" \/ cart = <<>>
       THEN UNCHANGED <<price_list, orders, rows_items, cart, hung, save_file>>
       ELSE /\ Len(orders) + Len(cart) <= MaxOrders
            /\ CommitEffect(cart, StripNick(t))
    /\ UNCHANGED <<rowsVars, fuzzyVars, parseVars, loadVars>>

\* show_paste_dialog.do_import with one parsed line: the line resolves to a
\* catalog entry, or to an entry created with the parsed price p and
\* std_qty = 1; commit_cart follows
do_import(nick, k, q, p) ==
    /\ ~hung
    /\ Len(orders) + Len(cart) + 1 <= MaxOrders
    /\ LET pl1  == IF k \in DOMAIN price_list THEN price_list
                   ELSE Put(price_list, k, [std_qty |-> 1, price |-> p])
           line == [key |-> k, quantity |-> q, std_qty |-> pl1[k].std_qty,
                    price |-> pl1[k].price]
           st   == commit_lines([pl |-> pl1, orders |-> orders,
                                 rows |-> rows_items, hang |-> FALSE],
                                Append(cart, line), nick)
       IN /\ price_list' = st.pl
          /\ orders' = st.orders
          /\ rows_items' = st.rows
          /\ hung' = st.hang
          /\ cart' = IF st.hang THEN Append(cart, line) ELSE <<>>
          /\ save_file' = IF st.hang THEN save_file
                          ELSE saved_orders(st.orders, st.rows)
    /\ UNCHANGED <<rowsVars, fuzzyVars, parseVars, loadVars>>

RECURSIVE RemoveFirst(_, _)
\* list.remove(x): drops the first element equal to x
RemoveFirst(s, x) ==
    IF s = <<>> THEN <<>>
    ELSE IF Head(s) = x THEN Tail(s)
    ELSE <<Head(s)>> \o RemoveFirst(Tail(s), x)

\* next(o for o in self.orders if str(o["idx"]) == iid)
FirstWithIdx(ords, iid) ==
    ords[CHOOSE i \in 1..Len(ords) :
            /\ ords[i].idx = iid
            /\ \A j \in 1..(i - 1) : ords[j].idx # iid]

\* _delete_order_sel on the tree row iid: remove, renumber, rebuild
delete_order_sel(iid) ==
    /\ ~hung
    /\ \E i \in 1..Len(orders) : orders[i].idx = iid
    /\ LET left == Renumber(RemoveFirst(orders, FirstWithIdx(orders, iid)))
           r    == rebuild(left, price_list)
       IN /\ orders' = r.orders
          /\ rows_items' = r.rows
          /\ hung' = r.hang
          /\ save_file' = IF r.hang THEN save_file
                          ELSE saved_orders(r.orders, r.rows)
    /\ UNCHANGED <<price_list, cart>>
    /\ UNCHANGED <<rowsVars, fuzzyVars, parseVars, loadVars>>

\* a row deletion that drops only the first order of the key
orders_without_key_first(ords, key) ==
    LET I == {i \in 1..Len(ords) : ords[i].key = key}
    IN IF I = {} THEN ords
       ELSE LET m == CHOOSE i \in I : \A j \in I : i <= j
            IN Renumber(SubSeq(ords, 1, m - 1) \o SubSeq(ords, m + 1, Len(ords)))

\* a row deletion that leaves the order history as it is
orders_without_key_bug(ords, key) == ords

\* lines 1009-1015: drop the orders of the key, renumber the rest
orders_without_key(ords, key) ==
    Renumber(SelectSeq(ords, LAMBDA o : o.key # key))

\* _delete_row_sel on the rows-tree row `key`
delete_row_sel(key) ==
    /\ ~hung
    /\ key \in DOMAIN rows_items
    /\ orders' = orders_without_key(orders, key)
    /\ rows_items' = Remove(rows_items, key)
    /\ save_file' = saved_orders(orders', rows_items')
    /\ UNCHANGED <<price_list, cart, hung>>
    /\ UNCHANGED <<rowsVars, fuzzyVars, parseVars, loadVars>>

\* _cart_del_sel
cart_del_sel(i) ==
    /\ ~hung
    /\ i \in 1..Len(cart)
    /\ cart' = SubSeq(cart, 1, i - 1) \o SubSeq(cart, i + 1, Len(cart))
    /\ UNCHANGED <<price_list, orders, rows_items, hung, save_file>>
    /\ UNCHANGED <<rowsVars, fuzzyVars, parseVars, loadVars>>

\* clear_all
clear_all ==
    /\ ~hung
    /\ orders # <<>> \/ cart # <<>>
    /\ orders' = <<>>
    /\ rows_items' = EmptyMap
    /\ cart' = <<>>
    /\ save_file' = NoSaveFile
    /\ UNCHANGED <<price_list, hung>>
    /\ UNCHANGED <<rowsVars, fuzzyVars, parseVars, loadVars>>

\* save_price_item: float() accepts any price and int() any integer as
\* std_qty; the entry is stored as typed
save_price_item(k, p, s) ==
    /\ ~hung
    /\ price_list' = Put(price_list, k, [std_qty |-> s, price |-> p])
    /\ UNCHANGED <<orders, rows_items, cart, hung, save_file>>
    /\ UNCHANGED <<rowsVars, fuzzyVars, parseVars, loadVars>>

\* delete_price_item
delete_price_item(k) ==
    /\ ~hung
    /\ k \in DOMAIN price_list
    /\ price_list' = Remove(price_list, k)
    /\ UNCHANGED <<orders, rows_items, cart, hung, save_file>>
    /\ UNCHANGED <<rowsVars, fuzzyVars, parseVars, loadVars>>

\* a reload that keeps the entries the files do not hold
reload_prices_merge(pl) ==
    /\ ~hung
    /\ price_list' = [k \in DOMAIN price_list \cup DOMAIN pl |->
                        IF k \in DOMAIN pl THEN pl[k] ELSE price_list[k]]
    /\ UNCHANGED <<orders, rows_items, cart, hung, save_file>>
    /\ UNCHANGED <<rowsVars, fuzzyVars, parseVars, loadVars>>

\* _reload_prices: the catalog becomes what the files hold
reload_prices(pl) ==
    /\ ~hung
    /\ price_list' = pl
    /\ UNCHANGED <<orders, rows_items, cart, hung, save_file>>
    /\ UNCHANGED <<rowsVars, fuzzyVars, parseVars, loadVars>>

\* _on_close: the snapshot is written when there is something to save
on_close ==
    /\ ~hung
    /\ orders # <<>> \/ rows_items # EmptyMap
    /\ save_file' = saved_orders(orders, rows_items)
    /\ UNCHANGED <<price_list, orders, rows_items, cart, hung>>
    /\ UNCHANGED <<rowsVars, fuzzyVars, parseVars, loadVars>>

\* _load_orders: orders and rows_items are taken from the snapshot as they
\* are; nothing is changed when SAVE_FILE does not exist
load_orders(ords, rows) ==
    IF save_file.exists
    THEN [orders |-> save_file.orders, rows_items |-> save_file.rows_items]
    ELSE [orders |-> ords, rows_items |-> rows]

\* OrderApp.__init__ at the next launch of the program: empty lists, then
\* _reload_prices with the catalog pl of the files, then _load_orders
launch(pl) ==
    /\ price_list' = pl
    /\ orders' = load_orders(<<>>, EmptyMap).orders
    /\ rows_items' = load_orders(<<>>, EmptyMap).rows_items
    /\ cart' = <<>>
    /\ hung' = FALSE
    /\ UNCHANGED save_file
    /\ UNCHANGED <<rowsVars, fuzzyVars, parseVars, loadVars>>

\* commits, deletions and cart edits: no existing catalog entry changes
OrdersNext ==
    \/ \E k \in Keys, t \in QtyTexts : add_to_cart(k, t)
    \/ \E t \in NickTexts : commit_cart(t)
    \/ \E n \in Nicks, k \in Keys, q \in 0..MaxQty :
          \* the parsed price is read only when the line does not resolve
          \E p \in (IF k \in DOMAIN price_list THEN {1} ELSE Prices) :
             do_import(n, k, q, p)
    \/ \E iid \in 0..(MaxOrders - 1) : delete_order_sel(iid)
    \/ \E k \in Keys : delete_row_sel(k)
    \/ \E i \in 1..MaxOrders : cart_del_sel(i)
    \/ clear_all

\* what the price and std fields of the form can hold: a price > 0 with any
\* std_qty, and a price that is not > 0
PriceFields ==
    {e \in [price : Prices, std_qty : StdQtys] : e.price > 0 \/ e.std_qty = 1}

CatalogNext ==
    \/ \E k \in Keys, e \in PriceFields : save_price_item(k, e.price, e.std_qty)
    \/ \E k \in Keys : delete_price_item(k)
    \/ \E pl \in CatalogsOfLoad : reload_prices(pl)

SessionNext ==
    \/ on_close
    \/ \E pl \in CatalogsOfLoad : launch(pl)

Next == OrdersNext \/ CatalogNext

SpecOrders == Init /\ [][OrdersNext]_vars

Spec == Init /\ [][Next]_vars

\* sessions of the program: orders are taken, the program is closed or
\* stopped and launched again on the files as they are then
SpecSession == Init /\ [][OrdersNext \/ SessionNext]_vars

\* ------------------------------------------------------ the rebuild alone
RebuildInit ==
    /\ price_list \in CatalogsOfLoad
    /\ orders \in {Renumber(s) :
                    s \in SeqsUpTo([idx : {0}, nick : Nicks, key : Keys,
                                    quantity : 0..MaxQty], MaxOrders)}
    /\ rows_items = EmptyMap
    /\ cart = <<>>
    /\ hung = FALSE
    /\ save_file = NoSaveFile
    /\ RowsIdle /\ FuzzyIdle /\ ParseIdle /\ LoadIdle

\* lines 1589-1596 run on the order list as it is
rebuild_orders ==
    /\ ~hung
    /\ LET r == rebuild(orders, price_list)
       IN /\ orders' = r.orders
          /\ rows_items' = r.rows
          /\ hung' = r.hang
    /\ UNCHANGED <<price_list, cart, save_file>>
    /\ UNCHANGED <<rowsVars, fuzzyVars, parseVars, loadVars>>

SpecRebuild == RebuildInit /\ [][rebuild_orders]_vars

\* ------------------------------------------------------- the reload alone
\* the states before a reload: a catalog with entries of files, of manual
\* edits and of pastes, at most one committed order of a key of the
\* catalog with the bucket map its commit left, at most one cart line
ReloadInit ==
    /\ price_list \in UNION {[D -> PriceFields] : D \in SUBSET Keys}
    /\ orders \in {<<>>} \cup
                   {<<[idx |-> 0, nick |-> n, key |-> k, quantity |-> q]>> :
                      n \in Nicks, k \in DOMAIN price_list, q \in 1..MaxQty}
    /\ ~rebuild(orders, price_list).hang
    /\ rows_items = rebuild(orders, price_list).rows
    /\ cart \in {<<>>} \cup
                 {<<[key |-> k, quantity |-> q,
                     std_qty |-> price_list[k].std_qty,
                     price |-> price_list[k].price]>> :
                    k \in DOMAIN price_list, q \in 1..MaxQty}
    /\ hung = FALSE
    /\ save_file = IF orders = <<>> THEN NoSaveFile
                   ELSE saved_orders(orders, rows_items)
    /\ RowsIdle /\ FuzzyIdle /\ ParseIdle /\ LoadIdle

SpecReload ==
    ReloadInit /\ [][\E pl \in CatalogsOfLoad : reload_prices(pl)]_vars

\* ---------------------------------- the commit and the row deletion alone
\* cart lines as add_to_cart left them: the std_qty and the price are those
\* the catalog entry held when the line was added
CartLines ==
    [key : Keys, quantity : {1, MaxQty}, std_qty : {1, MaxQty + 1},
     price : {p \in Prices : p > 0}]

\* the states before a commit: a catalog that was edited after the cart was
\* filled, at most one committed order with its contribution pending or
\* not, and a cart
CommitInit ==
    /\ price_list \in CatalogsOfLoad
    /\ orders \in {<<>>} \cup
                   {<<[idx |-> 0, nick |-> "A", key |-> k, quantity |-> 1]>> :
                      k \in Keys}
    /\ rows_items \in
          {EmptyMap} \cup
          {Put(EmptyMap, orders[i].key, <<Contribution(orders[i])>>) :
             i \in 1..Len(orders)}
    /\ cart \in SeqsUpTo(CartLines, MaxOrders - Len(orders))
    /\ hung = FALSE
    /\ save_file = IF orders = <<>> THEN NoSaveFile
                   ELSE saved_orders(orders, rows_items)
    /\ RowsIdle /\ FuzzyIdle /\ ParseIdle /\ LoadIdle

CommitNext ==
    \/ \E t \in NickTexts : commit_cart(t)
    \/ \E k \in Keys : delete_row_sel(k)

SpecCommit == CommitInit /\ [][CommitNext]_vars

\* ------------------------------------------------------ claims on the app
RECURSIVE SumQty(_, _)
\* the units ordered for key k that are not equal to the key's pack quantity
SumQty(ords, k) ==
    IF ords = <<>> THEN 0
    ELSE (IF Head(ords).key = k THEN Head(ords).quantity ELSE 0)
         + SumQty(Tail(ords), k)

\* C3: in every state reached by commits, single-order deletions (with their
\* rebuild) and row deletions, no key of the bucket map maps to an empty
\* contribution list.
C3_NoEmptyBucket == \A k \in DOMAIN rows_items : rows_items[k] # <<>>

\* an order was contributed and consumed whole, and its key has no bucket
C3_Witness ==
    /\ ~hung
    /\ \E i \in 1..Len(orders) :
          /\ orders[i].key \in DOMAIN price_list
          /\ orders[i].key \notin DOMAIN rows_items
          /\ orders[i].quantity > price_list[orders[i].key].std_qty
          /\ price_list[orders[i].key].std_qty >= 1

\* C4: after any sequence of commits, single-order deletions and row
\* deletions, with no existing catalog entry edited, deleted or reloaded, the
\* bucket map kept incrementally equals the map obtained by clearing all
\* buckets and replaying the current order list in order.
C4_RowsAreRebuildOfOrders ==
    ~hung => LET r == rebuild(orders, price_list)
             IN ~r.hang /\ r.rows = rows_items

\* two orders of one key are committed and their bucket is partly consumed
C4_Witness ==
    /\ ~hung /\ Len(orders) = 2
    /\ \E k \in DOMAIN rows_items :
          /\ orders[1].key = k /\ orders[2].key = k
          /\ Total(rows_items[k]) >= 1
          /\ Total(rows_items[k]) < SumQty(orders, k)

\* C5: the rebuild is idempotent: on the order list a rebuild leaves, a
\* second rebuild yields the same bucket map, and the order list is the same
\* before and after each rebuild.
C5_RebuildIdempotent ==
    LET r1 == rebuild(orders, price_list)
        r2 == rebuild(r1.orders, price_list)
    IN ~r1.hang => /\ r1.orders = orders
                   /\ ~r2.hang
                   /\ r2.orders = orders
                   /\ r2.rows = r1.rows

\* a rebuild has run and left a bucket whose last contribution is partly
\* consumed
C5_Witness ==
    /\ ~hung /\ rows_items = rebuild(orders, price_list).rows
    /\ \E k \in DOMAIN rows_items :
          /\ Total(rows_items[k]) >= 1
          /\ Total(rows_items[k]) < SumQty(orders, k)
          /\ \E i \in 1..Len(orders) :
                /\ orders[i].key = k
                /\ orders[i].quantity >
                      rows_items[k][Len(rows_items[k])].quantity

\* C17: in every reachable state every catalog entry, whether it came from a
\* file load, a manual edit, an ad hoc commit or a paste import of a product
\* that did not resolve, has a unit price > 0 and a standard pack quantity
\* of at least 1.
C17_EntriesValid ==
    \A k \in DOMAIN price_list :
        price_list[k].price > 0 /\ price_list[k].std_qty >= 1

\* C18: after a restore from a saved snapshot the bucket map equals the
\* rebuild of the restored order list on the catalog of the launch, whatever
\* bucket map the snapshot carried (wherever that rebuild ends).
C18_RestoreRebuilds ==
    [][((\E pl \in CatalogsOfLoad : launch(pl)) /\ save_file.exists)
          => LET r == rebuild(orders', price_list')
             IN ~r.hang => rows_items' = r.rows]_vars

\* the text is a positive integer
PositiveIntegerText(t) ==
    /\ t # <<>>
    /\ \A i \in 1..Len(t) : t[i] \in Digits
    /\ IntOf(t) > 0

\* C19: a manual catalog edit with a price <= 0 or a standard pack quantity
\* < 1 leaves the catalog unchanged, and a cart add whose quantity text is not
\* a positive integer leaves the cart unchanged.
C19_InvalidEntryRejected ==
    [][/\ \A k \in Keys, e \in PriceFields :
             ((e.price <= 0 \/ e.std_qty < 1)
                /\ save_price_item(k, e.price, e.std_qty))
               => price_list' = price_list
       /\ \A k \in Keys, t \in QtyTexts :
             (~PositiveIntegerText(t) /\ add_to_cart(k, t)) => cart' = cart]_vars

\* C20: in every reachable state, also after a manual catalog edit or a
\* reload that changes the standard pack quantity of a key that has a bucket,
\* the total pending quantity of every bucket is strictly less than the
\* standard pack quantity the catalog holds for its key (stated for the keys
\* whose catalog entry has a standard pack quantity of at least 1).
C20_BucketBelowCurrentStd ==
    ~hung =>
       \A k \in DOMAIN rows_items \cap DOMAIN price_list :
           price_list[k].std_qty >= 1
             => Total(rows_items[k]) < price_list[k].std_qty

\* the order lines whose quantity differs from the standard pack quantity of
\* their catalog entry
Contributing(ords, pl) ==
    SelectSeq(ords, LAMBDA o : o.key \in DOMAIN pl
                               /\ o.quantity # pl[o.key].std_qty)

\* the cart holds one line, of a quantity equal to the standard pack quantity
\* of its catalog entry
FullPackInCart ==
    /\ Len(cart) = 1
    /\ cart[1].key \in DOMAIN price_list
    /\ cart[1].quantity = price_list[cart[1].key].std_qty

\* C21: an order line whose quantity equals the standard pack quantity of its
\* catalog entry is never contributed: its commit leaves the bucket map
\* unchanged and appends the line to the order history, and a rebuild gives
\* the bucket map it gives without such lines.
C21_FullPackNotContributed ==
    [][/\ (FullPackInCart /\ \E n \in Nicks : commit_cart(n))
             => /\ rows_items' = rows_items
                /\ Len(orders') = Len(orders) + 1
                /\ orders'[Len(orders')].key = cart[1].key
                /\ orders'[Len(orders')].quantity = cart[1].quantity
       /\ ((\E iid \in 0..(MaxOrders - 1) : delete_order_sel(iid)) /\ ~hung')
             => LET r == rebuild(Contributing(orders', price_list), price_list)
                IN ~r.hang /\ r.rows = rows_items']_vars

\* C24: a reload replaces the catalog wholesale: after it the catalog is
\* exactly the map built from the files, so an entry the files do not hold is
\* gone; the order history, the cart and the bucket map are unchanged.
C24_ReloadReplaces ==
    [][\A pl \in CatalogsOfLoad :
          reload_prices(pl)
            => /\ price_list' = pl
               /\ orders' = orders /\ cart' = cart
               /\ rows_items' = rows_items]_vars

\* after a reload the catalog no longer holds the key of the committed order
\* and of the cart line, which are still there with the bucket
C24_Witness ==
    /\ orders # <<>> /\ orders[1].key \notin DOMAIN price_list
    /\ cart # <<>> /\ cart[1].key \notin DOMAIN price_list
    /\ orders[1].key \in DOMAIN rows_items
    /\ price_list # EmptyMap

\* C25: in every state reached by commits, deletions, reloads, manual edits
\* and catalog entry deletions, every key of the bucket map is a key of the
\* catalog.
C25_BucketKeysInCatalog ==
    ~hung => DOMAIN rows_items \subseteq DOMAIN price_list

\* C26: every committed order line and every contribution held in a bucket
\* has a quantity of at least 1, whether it came from the cart add or from
\* the paste import.
C26_QuantitiesPositive ==
    ~hung =>
       /\ \A i \in 1..Len(orders) : orders[i].quantity >= 1
       /\ \A k \in DOMAIN rows_items :
             \A i \in 1..Len(rows_items[k]) : rows_items[k][i].quantity >= 1

\* the order list without its idx fields
NoIdx(ords) ==
    [i \in 1..Len(ords) |-> [nick |-> ords[i].nick, key |-> ords[i].key,
                             quantity |-> ords[i].quantity]]

\* the sequence s without its element at position p
WithoutPos(s, p) == SubSeq(s, 1, p - 1) \o SubSeq(s, p + 1, Len(s))

\* C27: after any sequence of commits, single-order deletions and row
\* deletions, the idx of the order at position i of the order list (counted
\* from 0) equals i, so indexes are unique and contiguous from 0, and the
\* deletion of the order with index iid removes exactly the order at that
\* position.
C27_IdxIsPosition ==
    /\ \A i \in 1..Len(orders) : orders[i].idx = i - 1
    /\ \A iid \in 0..(Len(orders) - 1) :
          RemoveFirst(orders, FirstWithIdx(orders, iid)) =
             WithoutPos(orders, iid + 1)

\* the history is full, holds orders of two customers and was saved by the
\* handler that last changed it
C27_Witness ==
    /\ ~hung /\ Len(orders) = MaxOrders
    /\ \A i \in 1..Len(orders) : orders[i].idx = i - 1
    /\ orders[1].nick # orders[Len(orders)].nick
    /\ save_file.exists /\ save_file.orders = orders

\* the keys the cart lines contribute to: commit_cart calls _process_rows
\* for the lines whose quantity differs from their std_qty
ContributedKeys(lines) ==
    {lines[i].key : i \in {j \in 1..Len(lines) :
                               lines[j].quantity # lines[j].std_qty}}

\* C28: a contribution to the bucket of key k changes only that bucket: the
\* buckets of the other keys, the catalog entries and the quantities recorded
\* in the order history stay as they were, also when the contribution is
\* partially consumed (the bucket holds its own copy of the quantity).
C28_ContributeTouchesOneBucket ==
    [][\A nick \in Nicks :
          commit_cart(nick) =>
             /\ \A k \in Keys \ ContributedKeys(cart) :
                   /\ (k \in DOMAIN rows_items') = (k \in DOMAIN rows_items)
                   /\ k \in DOMAIN rows_items =>
                         rows_items'[k] = rows_items[k]
             /\ \A k \in DOMAIN price_list :
                   k \in DOMAIN price_list' /\ price_list'[k] = price_list[k]
             /\ Len(orders') >= Len(orders)
             /\ \A i \in 1..Len(orders) : orders'[i] = orders[i]
             /\ \A j \in 1..(Len(orders') - Len(orders)) :
                   orders'[Len(orders) + j].quantity = cart[j].quantity]_vars

\* a contribution to one key was partially consumed and then used up while
\* the bucket of the other key stayed as it was; the order keeps its quantity
C28_Witness ==
    /\ ~hung /\ Len(orders) = 2 /\ cart = <<>>
    /\ orders[1].nick = "A" /\ orders[2].nick = "B"
    /\ orders[1].key # orders[2].key
    /\ orders[1].key \in DOMAIN rows_items
    /\ rows_items[orders[1].key] =
          <<[nick |-> orders[1].nick, quantity |-> orders[1].quantity]>>
    /\ orders[2].key \notin DOMAIN rows_items
    /\ orders[2].key \in DOMAIN price_list
    /\ price_list[orders[2].key].std_qty >= 1
    /\ orders[2].quantity > price_list[orders[2].key].std_qty

\* C29: deleting the row of key k removes every order line of key k, the
\* lines already consumed into full packs included, and the bucket of k; the
\* other order lines keep their relative order and their content apart from
\* the renumbering, and the other buckets are unchanged.
C29_RowDeletionRemovesKey ==
    [][\A k \in Keys :
          delete_row_sel(k) =>
             /\ \A i \in 1..Len(orders') : orders'[i].key # k
             /\ k \notin DOMAIN rows_items'
             /\ NoIdx(orders') =
                   SelectSeq(NoIdx(orders), LAMBDA o : o.key # k)
             /\ DOMAIN rows_items' = DOMAIN rows_items \ {k}
             /\ \A k2 \in DOMAIN rows_items' :
                   rows_items'[k2] = rows_items[k2]]_vars

\* a state only a row deletion leaves: the history emptied and saved empty,
\* no bucket, the cart as it was, the catalog entry of the key still there
C29_Witness ==
    /\ ~hung /\ orders = <<>> /\ rows_items = EmptyMap
    /\ cart # <<>>
    /\ save_file = saved_orders(<<>>, EmptyMap)
    /\ DOMAIN price_list = Keys

\* the position of the first cart line of key k
FirstLineOf(lines, k) ==
    CHOOSE i \in 1..Len(lines) :
        /\ lines[i].key = k
        /\ \A j \in 1..(i - 1) : lines[j].key # k

\* C30: a commit that returns, with a non-empty nick and a non-empty cart,
\* appends one order line per cart line to the end of the history, in cart
\* order and under that nick, creates a catalog entry for a cart line's key
\* only when the key is absent (an existing entry is never overwritten) and
\* leaves the cart empty; a commit with an empty nick or an empty cart
\* changes neither the history, the cart, the catalog nor the bucket map.
C30_CommitAppendsCart ==
    [][\A t \in NickTexts :
          commit_cart(t) =>
             IF StripNick(t) = "" \/ cart = <<>>
             THEN UNCHANGED <<orders, cart, price_list, rows_items>>
             ELSE ~hung' =>
                /\ Len(orders') = Len(orders) + Len(cart)
                /\ SubSeq(orders', 1, Len(orders)) = orders
                /\ \A j \in 1..Len(cart) :
                      orders'[Len(orders) + j] =
                         [idx |-> Len(orders) + j - 1, nick |-> StripNick(t),
                          key |-> cart[j].key, quantity |-> cart[j].quantity]
                /\ DOMAIN price_list' =
                      DOMAIN price_list \cup
                         {cart[j].key : j \in 1..Len(cart)}
                /\ \A k \in DOMAIN price_list : price_list'[k] = price_list[k]
                /\ \A k \in DOMAIN price_list' \ DOMAIN price_list :
                      LET ci == cart[FirstLineOf(cart, k)]
                      IN price_list'[k] = [std_qty |-> ci.std_qty,
                                           price |-> ci.price]
                /\ cart' = <<>>]_vars

\* a commit of two cart lines has returned: the history holds the two lines
\* under one nick, the first of a key whose catalog entry differs from the
\* pack quantity the cart line carried
C30_Witness ==
    /\ ~hung /\ cart = <<>> /\ Len(orders) = 2
    /\ orders[1].nick = "B" /\ orders[2].nick = "B"
    /\ orders[1].key # orders[2].key
    /\ orders[1].key \in DOMAIN price_list
    /\ price_list[orders[1].key].std_qty \notin {1, MaxQty + 1}
    /\ save_file.exists /\ save_file.orders = orders

\* ------------------------------------------------------ parse_pasted_order
\* a text is a sequence of characters; "NL" and "CR" are the line breaks
\* one element that stands for a run of 4301 digits 9: the patterns below
\* take a run of digits whole wherever they take its first digit
LongRun == "9x4301"

DigitChars == Digits \cup {LongRun}

RunLen(c) == IF c = LongRun THEN 4301 ELSE 1

\* the longest digit string int() converts: sys.int_max_str_digits of the
\* interpreter, past which int() raises ValueError
int_max_str_digits == 4300

Cls(S) == [t |-> "cls", set |-> S]

Lit(c) == [t |-> "cls", set |-> {c}]

Cat(ps) == [t |-> "cat", parts |-> ps]

Alt(ps) == [t |-> "alt", parts |-> ps]

Opt(r) == [t |-> "opt", r |-> r]

Star(r) == [t |-> "star", r |-> r]

Plus(r) == Cat(<<r, Star(r)>>)

ReD == Cls(DigitChars)

ReS == Cls({" "})

ReSep == Cls({".", ","})

\* line 57: the bucket form of a weight
WeightBucket ==
    Cat(<<Lit("cp"), Lit("cl"), Opt(Lit(".")), Star(ReS),
          Lit("cv"), Lit("ce"), Lit("cd"), Lit("cr"), Lit("co"), Plus(ReS),
          Plus(ReD), ReSep, Plus(ReD),
          Opt(Cat(<<Star(ReS), Lit("/"), Star(ReS), Plus(ReD), ReSep, Plus(ReD)>>)),
          Opt(Cat(<<Star(ReS), Lit("ck"), Lit("cg")>>))>>)

\* line 58: number, optional blanks, unit, optional period
WeightSimple ==
    Cat(<<Plus(ReD), Opt(ReSep), Star(ReD), Star(ReS),
          Alt(<<Cat(<<Lit("cg"), Opt(Lit("cr"))>>), Cat(<<Lit("cm"), Lit("cl")>>),
                Cat(<<Lit("ck"), Lit("cg")>>), Cat(<<Lit("m"), Lit("l")>>),
                Lit("g")>>),
          Opt(Lit("."))>>)

\* _WEIGHT_RE (with re.IGNORECASE)
WEIGHT_RE == Alt(<<WeightBucket, WeightSimple>>)

\* _QTY_RE (with re.IGNORECASE)
QTY_RE == Cat(<<Plus(ReD), Star(ReS), Lit("csh"), Lit("ct")>>)

\* _PRICE_RE
PRICE_RE == Alt(<<Cat(<<Plus(ReD), ReSep, Plus(ReD)>>), Plus(ReD)>>)

RECURSIVE Ends(_, _, _, _), EndsFrom(_, _, _, _)
\* the ends of the matches of re in s from the 0-based index i, in the order
\* the backtracking matcher of re tries them: the first is the match
Ends(re, s, i, ic) ==
    CASE re.t = "cls" ->
             IF i < Len(s) /\ (s[i + 1] \in re.set
                               \/ (ic /\ LowerChar(s[i + 1]) \in re.set))
             THEN <<i + 1>> ELSE <<>>
      [] re.t = "cat" ->
             IF re.parts = <<>> THEN <<i>>
             ELSE EndsFrom(Cat(Tail(re.parts)), s, Ends(Head(re.parts), s, i, ic), ic)
      [] re.t = "alt" ->
             IF re.parts = <<>> THEN <<>>
             ELSE Ends(Head(re.parts), s, i, ic) \o Ends(Alt(Tail(re.parts)), s, i, ic)
      [] re.t = "opt" -> Ends(re.r, s, i, ic) \o <<i>>
      [] re.t = "star" ->
             EndsFrom(re, s, SelectSeq(Ends(re.r, s, i, ic), LAMBDA e : e > i), ic)
             \o <<i>>

EndsFrom(re, s, starts, ic) ==
    IF starts = <<>> THEN <<>>
    ELSE Ends(re, s, Head(starts), ic) \o EndsFrom(re, s, Tail(starts), ic)

\* the match of re in s that starts at the 0-based index i
MatchAt(re, s, i, ic) ==
    [found |-> TRUE, start |-> i, end |-> Head(Ends(re, s, i, ic))]

\* the leftmost of the starts `at` of a match
FirstOf(re, s, at, ic) ==
    IF at = {} THEN [found |-> FALSE, start |-> 0, end |-> 0]
    ELSE MatchAt(re, s, CHOOSE m \in at : \A n \in at : m <= n, ic)

\* re.search(s) from index `from`: [found, start, end] of the leftmost match
Search(re, s, from, ic) ==
    FirstOf(re, s, {i \in from..Len(s) : Ends(re, s, i, ic) # <<>>}, ic)

RECURSIVE FindAll(_, _, _), FindAllFrom(_, _, _)
\* re.findall(s): the matched texts, left to right, without overlap
FindAll(re, s, from) == FindAllFrom(re, s, Search(re, s, from, FALSE))

\* the match m and the matches after it
FindAllFrom(re, s, m) ==
    IF ~m.found THEN <<>>
    ELSE <<SubSeq(s, m.start + 1, m.end)>>
         \o FindAll(re, s, IF m.end > m.start THEN m.end ELSE m.end + 1)

RECURSIVE RStripSet(_, _)
\* str.rstrip(chars)
RStripSet(s, chars) ==
    IF s # <<>> /\ s[Len(s)] \in chars
    THEN RStripSet(SubSeq(s, 1, Len(s) - 1), chars) ELSE s

RECURSIVE Normalize(_)
\* text.replace('\r\n', '\n').replace('\r', '\n')
Normalize(t) ==
    IF t = <<>> THEN <<>>
    ELSE IF Head(t) = "CR"
         THEN IF Len(t) >= 2 /\ t[2] = "NL" THEN <<"NL">> \o Normalize(Tail(Tail(t)))
              ELSE <<"NL">> \o Normalize(Tail(t))
         ELSE <<Head(t)>> \o Normalize(Tail(t))

RECURSIVE SplitLines(_, _)
\* text.split('\n'), with `cur` the line being read
SplitLines(t, cur) ==
    IF t = <<>> THEN <<cur>>
    ELSE IF Head(t) = "NL" THEN <<cur>> \o SplitLines(Tail(t), <<>>)
    ELSE SplitLines(Tail(t), Append(cur, Head(t)))

IsDigits(d) == d # <<>> /\ \A i \in 1..Len(d) : d[i] \in DigitChars

HasLongRun(d) == \E i \in 1..Len(d) : d[i] = LongRun

RECURSIVE DigitCount(_)
DigitCount(d) == IF d = <<>> THEN 0 ELSE RunLen(Head(d)) + DigitCount(Tail(d))

\* int(d) raises ValueError
IntRaises(d) == DigitCount(d) > int_max_str_digits

RECURSIVE Pow10(_)
Pow10(n) == IF n = 0 THEN 1 ELSE 10 * Pow10(n - 1)

\* the index of the decimal separator of p, 0 when it has none
SepIndex(p) ==
    IF \E i \in 1..Len(p) : p[i] \in {".", ","}
    THEN CHOOSE i \in 1..Len(p) : p[i] \in {".", ","} ELSE 0

\* the float of the digits `whole` before and `frac` after the separator, as
\* the fraction num/den; ok = FALSE where float() raises ValueError. float()
\* has no limit on the digits: a whole part of 4301 digits gives inf (1/0
\* here), such a fraction part rounds up
FloatOf(whole, frac) ==
    IF (whole = <<>> /\ frac = <<>>) \/ ~IsDigits(whole \o frac)
    THEN [ok |-> FALSE, num |-> 0, den |-> 1]
    ELSE IF HasLongRun(whole) THEN [ok |-> TRUE, num |-> 1, den |-> 0]
    ELSE IF HasLongRun(frac) THEN [ok |-> TRUE, num |-> IntOf(whole) + 1, den |-> 1]
    ELSE [ok |-> TRUE, num |-> IntOf(whole \o frac), den |-> Pow10(Len(frac))]

\* p cut at its separator, the 1-based index k
FloatAt(p, k) ==
    IF k = 0 THEN FloatOf(p, <<>>)
    ELSE FloatOf(SubSeq(p, 1, k - 1), SubSeq(p, k + 1, Len(p)))

\* float(p.replace(',', '.'))
ParseFloat(p) == FloatAt(p, SepIndex(p))

RECURSIVE DigitRun(_, _)
\* group(1) of _QTY_RE: the run of digits of s from the 0-based index i
DigitRun(s, i) ==
    IF i < Len(s) /\ s[i + 1] \in DigitChars THEN <<s[i + 1]>> \o DigitRun(s, i + 1)
    ELSE <<>>

\* `skipped.append(line); continue`
SkipLine(line) == [kind |-> "skipped", line |-> line]

\* lines 89-91: name, weight and tail of a line with the weight match wm
CutAtWeight(line, wm) ==
    [name   |-> Strip(RStripSet(Strip(SubSeq(line, 1, wm.start)),
                                {".", ",", "-", " "})),
     weight |-> Strip(SubSeq(line, wm.start + 1, wm.end)),
     tail   |-> SubSeq(line, wm.end + 1, Len(line))]

\* lines 107-110: the record of a line whose last price text has the value
\* `price`
MakeRecord(cut, quantity, price) ==
    IF ~price.ok THEN [kind |-> "raise"]
    ELSE [kind |-> "parsed",
          rec |-> [name |-> cut.name, weight |-> cut.weight,
                   price |-> [num |-> price.num, den |-> price.den],
                   quantity |-> quantity]]

\* the price taken from the first number of the price zone
WithPricesBug(line, cut, quantity, prices) ==
    IF prices = <<>> THEN SkipLine(line)
    ELSE MakeRecord(cut, quantity, ParseFloat(prices[1]))

\* lines 103-107: the line with the numbers `prices` of its price zone
WithPrices(line, cut, quantity, prices) ==
    IF prices = <<>> THEN SkipLine(line)
    ELSE MakeRecord(cut, quantity, ParseFloat(prices[Len(prices)]))

\* the price looked for in the whole tail
WithQtyBug(line, cut, qm) ==
    IF qm.found
    THEN IF IntRaises(DigitRun(cut.tail, qm.start)) THEN [kind |-> "raise"]
         ELSE WithPrices(line, cut, IntOf(DigitRun(cut.tail, qm.start)),
                         FindAll(PRICE_RE, cut.tail, 0))
    ELSE WithPrices(line, cut, 1, FindAll(PRICE_RE, cut.tail, 0))

\* lines 98-103: the line with the match qm of the quantity token in its tail
WithQty(line, cut, qm) ==
    IF qm.found
    THEN IF IntRaises(DigitRun(cut.tail, qm.start)) THEN [kind |-> "raise"]
         ELSE WithPrices(line, cut, IntOf(DigitRun(cut.tail, qm.start)),
                         FindAll(PRICE_RE, SubSeq(cut.tail, 1, qm.start), 0))
    ELSE WithPrices(line, cut, 1, FindAll(PRICE_RE, cut.tail, 0))

\* lines 93-98: the line cut into name, weight and tail
WithCut(line, cut) ==
    IF cut.name = <<>> THEN SkipLine(line)
    ELSE WithQty(line, cut, Search(QTY_RE, cut.tail, 0, TRUE))

\* lines 85-91: the line with the match wm of the weight token
WithWeight(line, wm) ==
    IF ~wm.found THEN SkipLine(line) ELSE WithCut(line, CutAtWeight(line, wm))

\* lines 80-84: the stripped line
StrippedLine(line) ==
    IF line = <<>> THEN [kind |-> "blank"]
    ELSE WithWeight(line, Search(WEIGHT_RE, line, 0, TRUE))

\* lines 79-110: the body of the loop for one raw line
ParseLine(raw_line) == StrippedLine(Strip(raw_line))

\* acc after the outcome r of a line
Collect(acc, r) ==
    CASE r.kind = "blank"   -> acc
      [] r.kind = "skipped" -> [acc EXCEPT !.skipped = Append(@, r.line)]
      [] r.kind = "parsed"  -> [acc EXCEPT !.result = Append(@, r.rec)]
      [] r.kind = "raise"   -> [acc EXCEPT !.raised = TRUE]

RECURSIVE ParseLines(_, _)
\* the for loop over the lines, on acc = [result, skipped, raised]
ParseLines(lines, acc) ==
    IF lines = <<>> \/ acc.raised THEN acc
    ELSE ParseLines(Tail(lines), Collect(acc, ParseLine(Head(lines))))

\* parse_pasted_order(text)
parse_pasted_order(t) ==
    ParseLines(SplitLines(Normalize(t), <<>>),
               [result |-> <<>>, skipped |-> <<>>, raised |-> FALSE])

\* the inputs: order lines written from their fields, free short texts,
\* texts of two lines, and lines with a number of 4301 digits
BucketWeight ==
    <<"cp", "cl", ".", " ", "cv", "ce", "cd", "cr", "co", " ",
      "1", ",", "6", " ", "/", " ", "3", ",", "1">>

\* "EMD" is the em dash
FieldNames == {<<"x">>, <<"x", " ", "x">>, <<"x", "1">>, <<"x", " ", "-">>,
               <<"X", ".">>, <<"x", ":">>, <<"x", " ", "EMD">>}

FieldWeights == {<<"1", "cg">>, <<"1", "0", " ", "cg", "cr">>,
                 <<"1", ",", "5", " ", "ck", "cg">>, <<"2", "CG", ".">>,
                 <<"5", "m", "l">>, BucketWeight}

FieldPrices == {[text |-> <<"3">>, num |-> 3, den |-> 1],
                [text |-> <<"9", "5", ".", "4", "0">>, num |-> 954, den |-> 10],
                [text |-> <<"3", ",", "5">>, num |-> 7, den |-> 2]}

FieldQtys == {[text |-> <<"2", "csh", "ct">>, n |-> 2],
              [text |-> <<"1", "2", " ", "CSH", "CT">>, n |-> 12]}

SepsAfterName == {<<" ">>, <<",", " ">>}

SepsInTail == {<<" ">>, <<" ", "-", " ">>}

OrderLines ==
    [kind : {"line"}, name : FieldNames, sep1 : SepsAfterName,
     weight : FieldWeights, sep2 : SepsInTail, price : FieldPrices,
     sep3 : SepsInTail, qty : FieldQtys]

\* lines with the quantity token before the price
QtyFirstLines ==
    [kind : {"qtyfirst"}, name : {<<"x">>, <<"x", " ", "x">>}, sep1 : SepsAfterName,
     weight : FieldWeights, sep2 : SepsInTail, price : FieldPrices,
     sep3 : SepsInTail, qty : FieldQtys]

\* name, weight, quantity token, price
QtyFirstText(f) ==
    f.name \o f.sep1 \o f.weight \o f.sep2 \o f.qty.text \o f.sep3 \o f.price.text

\* a tail without quantity token, and no number after the quantity token
NoQty == [text |-> <<>>, n |-> 1]
NoNumber == [text |-> <<>>, num |-> 0, den |-> 1]

\* lines whose tail holds two numbers, then a quantity token or none, then
\* a further number or none
TailLines ==
    [kind : {"tail"}, first : FieldPrices, last : FieldPrices,
     qty : FieldQtys \cup {NoQty},
     after : {NoNumber, [text |-> <<"7">>, num |-> 7, den |-> 1]}]

\* name, weight, the two numbers, quantity token, number
TailText(f) ==
    <<"x", " ", "1", "cg", " ">> \o f.first.text \o <<" ">> \o f.last.text
      \o (IF f.qty.text = <<>> THEN <<>> ELSE <<" ">> \o f.qty.text)
      \o (IF f.after.text = <<>> THEN <<>> ELSE <<" ">> \o f.after.text)

\* name, weight, price, quantity token
LineText(f) ==
    f.name \o f.sep1 \o f.weight \o f.sep2 \o f.price.text \o f.sep3 \o f.qty.text

FreeChars == {"x", "1", ",", "cg", "csh", "ct", " ", "NL"}

SampleLines == {<<>>, <<" ">>, <<"x", " ", "x">>, <<"x", "1", "cg", " ", "3">>,
                <<" ", "1", "cg", " ", "3">>, <<"x", " ", "1", "cg">>,
                <<"x", "x", "2", "cg", " ", "5">>}

LineBreaks == {<<"NL">>, <<"CR">>, <<"CR", "NL">>}

LongLines == {<<"x", " ", "1", "cg", " ", LongRun>>,
              <<"x", " ", "1", "cg", " ", "3", ".", LongRun>>,
              <<"x", " ", LongRun, "cg", " ", "3">>,
              <<"x", " ", "1", "cg", " ", "3", " ", LongRun, "csh", "ct">>,
              <<"x", " ", "1", "cg", " ", LongRun, "csh", "ct">>,
              <<"x", "1", "cg", " ", "3", "NL",
                "x", " ", "1", "cg", " ", LongRun, "csh", "ct">>}

ParseInit ==
    /\ \/ /\ parts \in OrderLines
          /\ text = LineText(parts)
       \/ /\ parts \in QtyFirstLines
          /\ text = QtyFirstText(parts)
       \/ /\ parts \in TailLines
          /\ text = TailText(parts)
       \/ /\ parts = [kind |-> "free"]
          /\ text \in SeqsUpTo(FreeChars, MaxText)
       \/ /\ parts = [kind |-> "lines"]
          /\ text \in {a \o b \o c : a \in SampleLines, b \in LineBreaks,
                                     c \in SampleLines}
       \/ /\ parts = [kind |-> "long"]
          /\ text \in LongLines
    /\ parsed = <<>>
    /\ skipped = <<>>
    /\ pcParse = "call"
    /\ AppIdle /\ RowsIdle /\ FuzzyIdle /\ LoadIdle

\* the call returns r, or raises
Returns(r) ==
    /\ parsed' = r.result
    /\ skipped' = r.skipped
    /\ pcParse' = IF r.raised THEN "raised" ELSE "done"

parse_call ==
    /\ pcParse = "call"
    /\ Returns(parse_pasted_order(text))
    /\ UNCHANGED <<text, parts>>
    /\ UNCHANGED <<appVars, rowsVars, fuzzyVars, loadVars>>

SpecParse == ParseInit /\ [][parse_call]_vars

\* ------------------------------------------- claims on parse_pasted_order
RECURSIVE NonBlankLines(_, _)
\* the lines of t, ended by a line break or by the end of the text, that
\* hold a character other than a blank; `seen` says the line read has one
NonBlankLines(t, seen) ==
    IF t = <<>> THEN (IF seen THEN 1 ELSE 0)
    ELSE IF Head(t) \in {"NL", "CR"}
         THEN (IF seen THEN 1 ELSE 0) + NonBlankLines(Tail(t), FALSE)
         ELSE NonBlankLines(Tail(t), seen \/ Head(t) # " ")

\* C9: parse never raises, and every non-blank line gives exactly one item,
\* a record or a skipped entry: the two lists together are as long as the
\* text has non-blank lines.
C9_OneItemPerLine ==
    /\ pcParse # "raised"
    /\ pcParse = "done" =>
          Len(parsed) + Len(skipped) = NonBlankLines(text, FALSE)

\* the name as the claim gives it: the punctuation, dashes and blanks at
\* its end removed
TrimmedName(n) == RStripSet(n, {".", ",", ":", "-", "EMD", " "})

\* C10: a line of a name without weight token, a weight token, a price and
\* a quantity token parses into exactly one record, with that name trimmed,
\* that weight token, that price and that quantity, and no skipped line.
C10_LineRoundTrip ==
    (pcParse = "done" /\ parts.kind = "line") =>
        /\ skipped = <<>>
        /\ Len(parsed) = 1
        /\ parsed[1].name = TrimmedName(parts.name)
        /\ parsed[1].weight = parts.weight
        /\ parsed[1].price.num * parts.price.den
              = parts.price.num * parsed[1].price.den
        /\ parsed[1].quantity = parts.qty.n

RECURSIVE SourceLines(_, _)
\* the lines of t as its line breaks LF, CR and CR LF end them
SourceLines(t, cur) ==
    IF t = <<>> THEN <<cur>>
    ELSE IF Head(t) = "CR" /\ Len(t) >= 2 /\ t[2] = "NL"
         THEN <<cur>> \o SourceLines(Tail(Tail(t)), <<>>)
    ELSE IF Head(t) \in {"NL", "CR"} THEN <<cur>> \o SourceLines(Tail(t), <<>>)
    ELSE SourceLines(Tail(t), Append(cur, Head(t)))

\* the non-blank lines of t, each without the blanks at its ends
TrimmedLines(t) ==
    SelectSeq([i \in 1..Len(SourceLines(t, <<>>)) |-> Strip(SourceLines(t, <<>>)[i])],
              LAMBDA l : l # <<>>)

HasNumber(s) == \E i \in 1..Len(s) : s[i] \in DigitChars

\* the part of the tail that holds the price: up to its first quantity token
PriceZoneOf(tail) ==
    IF Search(QTY_RE, tail, 0, TRUE).found
    THEN SubSeq(tail, 1, Search(QTY_RE, tail, 0, TRUE).start)
    ELSE tail

\* the line has no weight token, or no name before its first weight token,
\* or no number in its price zone
MustSkip(l) ==
    \/ ~Search(WEIGHT_RE, l, 0, TRUE).found
    \/ TrimmedName(Strip(SubSeq(l, 1, Search(WEIGHT_RE, l, 0, TRUE).start))) = <<>>
    \/ ~HasNumber(PriceZoneOf(SubSeq(l, Search(WEIGHT_RE, l, 0, TRUE).end + 1, Len(l))))

\* the elements of s at the indices of `at`, in their order in s
Pick(s, at) ==
    LET keep == [i \in 1..Len(s) |-> i \in at]
        F[i \in 0..Len(s)] ==
            IF i = 0 THEN <<>>
            ELSE IF keep[i] THEN Append(F[i - 1], s[i]) ELSE F[i - 1]
    IN F[Len(s)]

\* the records of the lines of s at the indices of `at`, each line parsed alone
RecordsOf(s, at) ==
    LET F[i \in 0..Len(s)] ==
            IF i = 0 THEN <<>>
            ELSE IF i \in at THEN F[i - 1] \o parse_pasted_order(s[i]).result
                 ELSE F[i - 1]
    IN F[Len(s)]

\* C11: parse keeps the order of the lines in both outputs: the skipped
\* entries are some of the trimmed non-blank lines in their order, the
\* records are the records of the other lines in their order, and every line
\* without weight token, without name or without number in its price zone
\* is among the skipped entries.
C11_OrderKept ==
    pcParse # "call" =>
        /\ pcParse = "done"
        /\ \E sk \in SUBSET (1..Len(TrimmedLines(text))) :
              /\ skipped = Pick(TrimmedLines(text), sk)
              /\ parsed = RecordsOf(TrimmedLines(text),
                                    (1..Len(TrimmedLines(text))) \ sk)
              /\ Len(parsed) = Len(TrimmedLines(text)) - Cardinality(sk)
              /\ \A i \in 1..Len(TrimmedLines(text)) :
                    MustSkip(TrimmedLines(text)[i]) => i \in sk

\* C12 as claimed: a line with the quantity token before the price parses
\* into one record with that price and that quantity.
C12_OrderFree ==
    (pcParse # "call" /\ parts.kind = "qtyfirst") =>
        /\ Len(parsed) = 1
        /\ parsed[1].price.num * parts.price.den
              = parts.price.num * parsed[1].price.den
        /\ parsed[1].quantity = parts.qty.n

\* C12 as amended: the price is read only before the quantity token, so a
\* line with the quantity token before its only price number gives no
\* record; where parse returns, the line is the one skipped entry.
C12_QtyFirstSkipped ==
    (pcParse # "call" /\ parts.kind = "qtyfirst") =>
        /\ parsed = <<>>
        /\ pcParse = "done" => skipped = <<text>>

\* a line "name weight - 2sht - 95.40" was skipped
C12_Witness ==
    /\ pcParse = "done" /\ parts.kind = "qtyfirst"
    /\ parts.qty.n = 2 /\ parts.price.num = 954 /\ parts.sep3 = <<" ", "-", " ">>
    /\ parsed = <<>> /\ skipped = <<text>>

\* the last number of the price zone of a line written from the fields f
LastNumber(f) ==
    IF f.qty.text = <<>> /\ f.after.text # <<>> THEN f.after ELSE f.last

\* C22: the price of a parsed record is the last number of the tail before
\* the first quantity token, or the last number of the whole tail when the
\* tail has no quantity token, and then the quantity is 1; a number after the
\* quantity token and the digits of the quantity token are never the price.
C22_PriceIsLastBeforeQty ==
    /\ (pcParse # "call" /\ parts.kind = "tail") =>
          /\ pcParse = "done" /\ skipped = <<>> /\ Len(parsed) = 1
          /\ parsed[1].price.num * LastNumber(parts).den
                = LastNumber(parts).num * parsed[1].price.den
          /\ parsed[1].quantity = parts.qty.n
    /\ (pcParse # "call" /\ parts.kind = "line") =>
          \A i \in 1..Len(parsed) :
              /\ parsed[i].price.num * parts.price.den
                    = parts.price.num * parsed[i].price.den
              /\ parsed[i].quantity = parts.qty.n

\* a line "x 1g 3 95.40 2sht 7" was parsed with the price 95.40
C22_Witness ==
    /\ pcParse = "done" /\ parts.kind = "tail"
    /\ parts.first.num = 3 /\ parts.last.num = 954
    /\ parts.qty.n = 2 /\ parts.after.num = 7
    /\ Len(parsed) = 1
    /\ parsed[1].price.num * 10 = 954 * parsed[1].price.den
    /\ parsed[1].quantity = 2

\* -------------------------------------------------------- load_price_files
\* a cell is a sequence of characters and of word pieces: "naimenov" is the
\* marker of the name column, "cena" the one of the price column
Replace(s, a, b) == [i \in 1..Len(s) |-> IF s[i] = a THEN b ELSE s[i]]

\* a float as num/den; den = 0 for the values that are no finite number:
\* num = 0 is nan, num = 1 is inf, num = -1 is -inf
FloatNan == [ok |-> TRUE, num |-> 0, den |-> 0]

FloatInf == [ok |-> TRUE, num |-> 1, den |-> 0]

\* float() of a text without sign
FloatBody(b) ==
    IF Lower(b) = <<"nan">> THEN FloatNan
    ELSE IF Lower(b) \in {<<"inf">>, <<"infinity">>} THEN FloatInf
    ELSE ParseFloat(b)

Negated(v) == [v EXCEPT !.num = 0 - @]

\* float() of a stripped text
FloatText(t) ==
    IF t = <<>> THEN [ok |-> FALSE, num |-> 0, den |-> 1]
    ELSE IF Head(t) = "-" THEN Negated(FloatBody(Tail(t)))
    ELSE IF Head(t) = "+" THEN FloatBody(Tail(t))
    ELSE FloatBody(t)

\* float(cell.replace(",", ".").strip()); ok = FALSE for ValueError
float_of_cell(cell) == FloatText(Strip(Replace(cell, ",", ".")))

\* int() of a text without sign
IntBody(b) ==
    IF IsDigits(b) /\ ~IntRaises(b) THEN [ok |-> TRUE, val |-> IntOf(b)]
    ELSE [ok |-> FALSE, val |-> 0]

NegatedInt(v) == [v EXCEPT !.val = 0 - @]

\* int() of a stripped text
IntText(t) ==
    IF t = <<>> THEN [ok |-> FALSE, val |-> 0]
    ELSE IF Head(t) = "-" THEN NegatedInt(IntBody(Tail(t)))
    ELSE IF Head(t) = "+" THEN IntBody(Tail(t))
    ELSE IntBody(t)

\* int(cell.strip()); ok = FALSE for ValueError
int_of_cell(cell) == IntText(Strip(cell))

\* `price <= 0`, which is false of nan
LeqZero(p) == IF p.den = 0 THEN p.num < 0 ELSE p.num <= 0

\* str.isdigit()
IsDigit(t) == t # <<>> /\ \A i \in 1..Len(t) : t[i] \in DigitChars

\* raw.split("/")[0].strip() where "/" is in raw
BeforeSlash(raw) ==
    IF Contains(<<"/">>, raw) THEN Strip(SubSeq(raw, 1, IndexOf(<<"/">>, raw)))
    ELSE raw

WeightUnits == {<<"cg">>, <<"ck", "cg">>, <<"cm", "cl">>, <<"cl">>, <<"g">>,
                <<"k", "g">>}

has_unit(raw) == \E u \in WeightUnits : Contains(u, Lower(raw))

AddUnit(raw) ==
    IF raw # <<>> /\ ~has_unit(raw) THEN raw \o <<" ", "ck", "cg">> ELSE raw

\* _parse_weight
parse_weight(raw) == AddUnit(BeforeSlash(Strip(raw)))

\* the 0-based index of the first cell of h that holds kw, -1 for None
FirstCell(h, kw) ==
    IF \E i \in 1..Len(h) : Contains(kw, h[i])
    THEN (CHOOSE i \in 1..Len(h) :
              Contains(kw, h[i]) /\ \A j \in 1..(i - 1) : ~Contains(kw, h[j])) - 1
    ELSE -1

RECURSIVE first(_, _)
\* first(keywords) of _detect_columns
first(h, keywords) ==
    IF keywords = <<>> THEN -1
    ELSE IF FirstCell(h, Head(keywords)) # -1 THEN FirstCell(h, Head(keywords))
    ELSE first(h, Tail(keywords))

NameWords == << <<"naimenov">> >>

WeightWords == << <<"massa", " ", "netto">>, <<"massa">>,
                 <<"ves", ",", " ", "ck", "cg">>, <<"ves">> >>

StdQtyWords == << <<"shtuk", " ", "v korobke">>, <<"veder", " ", "v korobke">>,
                 <<"shtuk">>, <<"veder">>, <<"up", ".">>, <<"v korobke">> >>

UnitPriceWords == << <<"cena", " ", "za", " ", "shtuk", "u">>,
                    <<"cena", " ", "za", " ", "vedro">>,
                    <<"cena", " ", "za", " ", "up">>,
                    <<"cena", " ", "za", " ", "ed">> >>

PriceWords == << <<"cena">> >>

\* the first column that holds the bare price word
price_col_bug(h) == first(h, PriceWords)

\* the price column: a unit price phrase first, else the bare price word
price_col(h) ==
    IF first(h, UnitPriceWords) # -1 THEN first(h, UnitPriceWords)
    ELSE first(h, PriceWords)

\* the column map of the lowered, stripped header h
ColumnsOf(h) ==
    IF first(h, NameWords) = -1 \/ price_col(h) = -1 THEN [mode |-> "fallback"]
    ELSE [mode |-> "header", name |-> first(h, NameWords),
          weight |-> first(h, WeightWords), price |-> price_col(h),
          std_qty |-> first(h, StdQtyWords)]

\* _detect_columns
detect_columns(header) ==
    ColumnsOf([i \in 1..Len(header) |-> Strip(Lower(header[i]))])

RECURSIVE Join(_)
\* " ".join(cells)
Join(cells) ==
    IF cells = <<>> THEN <<>>
    ELSE IF Len(cells) = 1 THEN Head(cells)
    ELSE Head(cells) \o <<" ">> \o Join(Tail(cells))

\* the test of the header search: both markers in the lowered row
IsHeaderRow(r) ==
    /\ Contains(<<"naimenov">>, Lower(Join(r)))
    /\ Contains(<<"cena">>, Lower(Join(r)))

\* the end of both row loops: `continue` on an empty name, on ValueError
\* and on price <= 0, else key and entry
RowOutcome(name, weight, price, std, source) ==
    IF name = <<>> \/ ~price.ok \/ ~std.ok \/ LeqZero(price)
    THEN [kind |-> "skip"]
    ELSE [kind |-> "store",
          key |-> Lower(name) \o <<"|">> \o Lower(weight),
          entry |-> [name |-> name, weight |-> weight,
                     price |-> [num |-> price.num, den |-> price.den],
                     std_qty |-> std.val, source |-> source]]

NoPrice == [ok |-> TRUE, num |-> 0, den |-> 1]

NoStdQty == [ok |-> TRUE, val |-> 1]

\* lines 216-236: a row of a file with header, columns cm
HeaderedRow(r, cm, source) ==
    IF r = <<>> THEN [kind |-> "skip"]
    ELSE IF ~IsDigit(Strip(r[1])) THEN [kind |-> "skip"]
    ELSE RowOutcome(
            IF cm.name < Len(r) THEN Strip(r[cm.name + 1]) ELSE <<>>,
            IF cm.weight # -1 /\ cm.weight < Len(r)
            THEN parse_weight(r[cm.weight + 1]) ELSE <<>>,
            IF cm.price < Len(r) THEN float_of_cell(r[cm.price + 1]) ELSE NoPrice,
            IF cm.std_qty # -1 /\ cm.std_qty < Len(r)
            THEN int_of_cell(r[cm.std_qty + 1]) ELSE NoStdQty,
            source)

skip_words == {<<"naimenov", "anie">>, <<"nazvanie">>, <<"name">>, <<"tovar">>,
               <<"no">>, <<"#">>}

\* lines 240-258: a row of a file without header
FallbackRow(r, source) ==
    IF r = <<>> THEN [kind |-> "skip"]
    ELSE IF Strip(r[1]) = <<>> THEN [kind |-> "skip"]
    ELSE IF Lower(Strip(r[1])) \in skip_words THEN [kind |-> "skip"]
    ELSE RowOutcome(
            Strip(r[1]),
            IF Len(r) > 1 THEN Strip(r[2]) ELSE <<>>,
            IF Len(r) > 2 THEN float_of_cell(r[3]) ELSE NoPrice,
            IF Len(r) > 3 THEN int_of_cell(r[4]) ELSE NoStdQty,
            source)

\* the row r of the file `source` under the column map cm
ReadRow(r, cm, source) ==
    IF cm.mode = "header" THEN HeaderedRow(r, cm, source)
    ELSE FallbackRow(r, source)

\* result[key] = dict(...), or nothing
Stored(res, out) ==
    IF out.kind = "store" THEN Put(res, out.key, out.entry) ELSE res

\* the files: header rows, and rows given by their name, weight, price and
\* standard quantity cells
Headers ==
    {<< <<"no">>, <<"Naimenov", "anie">>, <<"Massa">>, <<"Cena">>,
        <<"Shtuk", " ", "v korobke">> >>,
     << <<"no">>, <<"naimenov", "anie">>, <<"ves">>, <<"cena">> >>}

CellW == <<"1", " ", "cg">>

CellWSlash == <<"1", ",", "8", " ", "/", " ", "3", ",", "1">>

PriceCells == {<<"3">>, <<"3", ",", "5">>, <<"0">>, <<"-", "3">>, <<>>, <<"x">>,
               <<"nan">>, <<" ", "3", ".", "5", " ">>}

StdQtyCells == {<<"2">>, <<"0">>, <<"x">>, <<>>, <<" ", "2", " ">>}

FieldRows ==
    {<< <<"x">>, CellW, p, <<"2">> >> : p \in PriceCells}
    \cup {<< <<"x">>, CellW, <<"3">>, q >> : q \in StdQtyCells}
    \cup {<< <<"X">>, CellW, <<"3", ",", "5">>, <<"2">> >>,
          << <<"X">>, CellW, <<"3">>, <<"x">> >>,
          << <<"X">>, CellW, <<"nan">>, <<"2">> >>,
          << <<"y">>, CellWSlash, <<"3">>, <<"2">> >>,
          << <<"x">>, CellW, <<"3">> >>,
          << <<"x">>, CellW >>,
          << <<"x">> >>,
          << <<>>, CellW, <<"3">>, <<"2">> >>,
          << <<" ">>, CellW, <<"3">>, <<"2">> >>}

\* the rows after a header: an ordinal number first
HeaderedRows ==
    {<< <<"1">> >> \o f : f \in FieldRows}
    \cup {<<>>, << <<"x">>, <<"x">>, CellW, <<"3">>, <<"2">> >>}

\* the rows of a file without header
FallbackRows ==
    FieldRows \cup {<<>>, << <<"name">>, CellW, <<"3">>, <<"2">> >>}

\* headers with a unit price column and a box price column, with the
\* 1-based positions of the two
TwoPriceHeaders ==
    {[cells |-> << <<"no">>, <<"Naimenov", "anie">>, <<"Massa">>,
                   <<"Cena", " ", "za", " ", "vedro">>, <<"Cena">>,
                   <<"veder", " ", "v korobke">> >>,
      unit |-> 4, box |-> 5],
     [cells |-> << <<"no">>, <<"Naimenov", "anie">>, <<"Massa">>,
                   <<"Cena">>, <<"cena", " ", "za", " ", "ed", ".">> >>,
      unit |-> 5, box |-> 4]}

\* the rows under such a header: the unit price is 3,5, the box price is 9
TwoPriceRows(h) ==
    {[i \in 1..6 |->
        CASE i = 1 -> <<"1">> [] i = 2 -> <<"x">> [] i = 3 -> CellW
          [] i = h.unit -> <<"3", ",", "5">> [] i = h.box -> <<"9">>
          [] OTHER -> <<"2">>]}

RowsOf(cm) == IF cm.mode = "header" THEN HeaderedRows ELSE FallbackRows

\* the rows a file with the header row h and the column map cm can hold
RowsUnder(h, cm) ==
    IF \E t \in TwoPriceHeaders : t.cells = h
    THEN UNION {TwoPriceRows(t) : t \in {u \in TwoPriceHeaders : u.cells = h}}
    ELSE RowsOf(cm)

LoadInit ==
    /\ result = EmptyMap
    /\ nfiles \in 0..MaxFiles
    /\ fpath = 0
    /\ opened = "none"
    /\ header_row = <<>>
    /\ col_map = [mode |-> "none"]
    /\ rowNo = 0
    /\ row = <<>>
    /\ pcLoad = "files"
    /\ AppIdle /\ RowsIdle /\ FuzzyIdle /\ ParseIdle

\* line 182: the suffix of the file is neither .csv nor .txt
skip_file ==
    /\ pcLoad = "files" /\ fpath < nfiles
    /\ fpath' = fpath + 1
    /\ opened' = "skipped"
    /\ UNCHANGED <<result, nfiles, header_row, col_map, rowNo, row, pcLoad>>
    /\ UNCHANGED <<appVars, rowsVars, fuzzyVars, parseVars>>

\* line 187: the file holds blanks only
empty_file ==
    /\ pcLoad = "files" /\ fpath < nfiles
    /\ fpath' = fpath + 1
    /\ opened' = "empty"
    /\ UNCHANGED <<result, nfiles, header_row, col_map, rowNo, row, pcLoad>>
    /\ UNCHANGED <<appVars, rowsVars, fuzzyVars, parseVars>>

\* an except clause that drops what was collected
AfterFailureBug(res) == EmptyMap

\* lines 259-260: `except Exception: pass`
AfterFailure(res) == res

\* lines 184-197: open, read, decoding or csv.reader raise; no row was read
fail_file ==
    /\ pcLoad = "files" /\ fpath < nfiles
    /\ fpath' = fpath + 1
    /\ opened' = "failed"
    /\ result' = AfterFailure(result)
    /\ UNCHANGED <<nfiles, header_row, col_map, rowNo, row, pcLoad>>
    /\ UNCHANGED <<appVars, rowsVars, fuzzyVars, parseVars>>

\* lines 200-214: the file is read and its first row is the header h
open_headered(h) ==
    /\ pcLoad = "files" /\ fpath < nfiles
    /\ IsHeaderRow(h)
    /\ fpath' = fpath + 1
    /\ opened' = "read"
    /\ header_row' = h
    /\ col_map' = detect_columns(h)
    /\ rowNo' = 0
    /\ pcLoad' = "rows"
    /\ UNCHANGED <<result, nfiles, row>>
    /\ UNCHANGED <<appVars, rowsVars, fuzzyVars, parseVars>>

\* lines 200-210, 238: the file is read and none of its rows is a header
open_fallback ==
    /\ pcLoad = "files" /\ fpath < nfiles
    /\ fpath' = fpath + 1
    /\ opened' = "read"
    /\ header_row' = <<>>
    /\ col_map' = [mode |-> "fallback"]
    /\ rowNo' = 0
    /\ pcLoad' = "rows"
    /\ UNCHANGED <<result, nfiles, row>>
    /\ UNCHANGED <<appVars, rowsVars, fuzzyVars, parseVars>>

\* one turn of the row loop, on the row r
read_row(r) ==
    /\ pcLoad = "rows" /\ rowNo < MaxRows
    /\ rowNo' = rowNo + 1
    /\ row' = r
    /\ result' = Stored(result, ReadRow(r, col_map, fpath))
    /\ UNCHANGED <<nfiles, fpath, opened, header_row, col_map, pcLoad>>
    /\ UNCHANGED <<appVars, rowsVars, fuzzyVars, parseVars>>

\* the rows of the file are used up
end_file ==
    /\ pcLoad = "rows"
    /\ pcLoad' = "files"
    /\ UNCHANGED <<result, nfiles, fpath, opened, header_row, col_map, rowNo, row>>
    /\ UNCHANGED <<appVars, rowsVars, fuzzyVars, parseVars>>

\* line 261: return result
load_return ==
    /\ pcLoad = "files" /\ fpath = nfiles
    /\ pcLoad' = "done"
    /\ UNCHANGED <<result, nfiles, fpath, opened, header_row, col_map, rowNo, row>>
    /\ UNCHANGED <<appVars, rowsVars, fuzzyVars, parseVars>>

LoadNext ==
    \/ skip_file
    \/ empty_file
    \/ fail_file
    \/ \E h \in Headers \cup {t.cells : t \in TwoPriceHeaders} : open_headered(h)
    \/ open_fallback
    \/ \E r \in RowsUnder(header_row, col_map) : read_row(r)
    \/ end_file
    \/ load_return

SpecLoad == LoadInit /\ [][LoadNext]_vars

\* ------------------------------------------------ claims on load_price_files
\* the row is one the loader reads as a data row: after a header its first
\* cell is an ordinal number, without header it is not a heading word
IsDataRow(r, cm) ==
    /\ r # <<>>
    /\ IF cm.mode = "header" THEN r[1] = <<"1">> ELSE r[1] # <<"name">>

\* the 1-based positions of the name, price and standard quantity cells;
\* 0 when the header names no such column
NameAt(cm) == IF cm.mode = "header" THEN cm.name + 1 ELSE 1

PriceAt(cm) == IF cm.mode = "header" THEN cm.price + 1 ELSE 3

StdQtyAt(cm) == IF cm.mode = "header" THEN cm.std_qty + 1 ELSE 4

\* the price cells that hold a positive decimal number, with their values
PositivePrices ==
    {[cell |-> <<"3">>, num |-> 3, den |-> 1],
     [cell |-> <<"3", ",", "5">>, num |-> 7, den |-> 2],
     [cell |-> <<" ", "3", ".", "5", " ">>, num |-> 7, den |-> 2]}

\* the price cell is missing, is no number, or holds a number <= 0
HasBadPrice(r, cm) ==
    \/ PriceAt(cm) > Len(r)
    \/ r[PriceAt(cm)] \notin {p.cell : p \in PositivePrices}

HasName(r, cm) == NameAt(cm) <= Len(r) /\ Strip(r[NameAt(cm)]) # <<>>

\* the standard quantity cells that hold an integer, with their values
IntegerCells ==
    {[cell |-> <<"2">>, val |-> 2], [cell |-> <<"0">>, val |-> 0],
     [cell |-> <<" ", "2", " ">>, val |-> 2]}

\* the standard quantity cell is absent or holds no integer
HasNoStdQty(r, cm) ==
    \/ StdQtyAt(cm) = 0
    \/ StdQtyAt(cm) > Len(r)
    \/ r[StdQtyAt(cm)] \notin {q.cell : q \in IntegerCells}

\* a row was read in this step
RowRead == pcLoad = "rows" /\ rowNo' = rowNo + 1

\* C13: a data row whose price is <= 0, missing or not a number produces no
\* entry and leaves every stored entry as it was, in both modes.
C13_BadPriceRowIgnored ==
    [][(RowRead /\ IsDataRow(row', col_map) /\ HasBadPrice(row', col_map))
          => result' = result]_vars

\* the entry of a valid row as the claims give it: its own name, weight,
\* price and source, its standard quantity or 1
EntryOfRow(r, cm, e, source) ==
    /\ e.name = Strip(r[NameAt(cm)])
    /\ e.source = source
    /\ \E p \in PositivePrices :
          /\ p.cell = r[PriceAt(cm)]
          /\ e.price.num * p.den = p.num * e.price.den /\ e.price.den # 0
    /\ IF HasNoStdQty(r, cm) THEN e.std_qty = 1
       ELSE \E q \in IntegerCells : q.cell = r[StdQtyAt(cm)] /\ e.std_qty = q.val

\* the key of a stored entry: lowercase(name)|lowercase(weight)
KeyOfEntry(e) == Lower(e.name) \o <<"|">> \o Lower(e.weight)

\* C14: one entry per key lowercase(name)|lowercase(weight), and once a valid
\* row is read the entry under its key is the entry of that row alone: the
\* last valid row of a key wins.
C14_LastRowWins ==
    [][/\ \A k \in DOMAIN result' : KeyOfEntry(result'[k]) = k
       /\ (RowRead /\ IsDataRow(row', col_map) /\ HasName(row', col_map)
           /\ ~HasBadPrice(row', col_map))
             => \E k \in DOMAIN result' :
                   /\ Lower(Strip(row'[NameAt(col_map)])) = Lower(result'[k].name)
                   /\ EntryOfRow(row', col_map, result'[k], fpath)]_vars

\* C15: a row with a name and a valid price whose standard quantity cell is
\* absent or holds no integer is stored, with standard quantity 1.
C15_StdQtyDefaultsToOne ==
    [][(RowRead /\ IsDataRow(row', col_map) /\ HasName(row', col_map)
        /\ ~HasBadPrice(row', col_map) /\ HasNoStdQty(row', col_map))
          => \E k \in DOMAIN result' :
                /\ result'[k].name = Strip(row'[NameAt(col_map)])
                /\ result'[k].source = fpath
                /\ result'[k].std_qty = 1]_vars

\* C16: a file that fails changes nothing of what was collected and the load
\* goes on with the next file; no step drops a collected key; the load
\* returns only after every file had its turn.
C16_FailureLosesNothing ==
    /\ [](pcLoad = "done" => fpath = nfiles)
    /\ [][/\ DOMAIN result \subseteq DOMAIN result'
          /\ (pcLoad = "files" /\ opened' = "failed" /\ fpath' = fpath + 1)
                => (result' = result /\ pcLoad' = "files")]_vars

\* the second file failed, and the load returned the entries of the first
C16_Witness ==
    /\ pcLoad = "done" /\ nfiles = 2 /\ fpath = 2 /\ opened = "failed"
    /\ \E k \in DOMAIN result : result[k].source = 1

\* the 1-based position of the unit price column of the two-price header h
UnitPriceAt(h) == (CHOOSE t \in TwoPriceHeaders : t.cells = h).unit

HasTwoPrices(h) == \E t \in TwoPriceHeaders : t.cells = h

\* the entry e has the price written in the cell c
PriceOfCell(e, c) ==
    \E p \in PositivePrices :
        /\ p.cell = c
        /\ e.price.num * p.den = p.num * e.price.den /\ e.price.den # 0

\* C23: under a header with a unit price column and a bare price column, in
\* either order, a row read gives an entry, and every entry a row stores has
\* the price of the row's unit price cell.
C23_UnitPriceColumn ==
    [][(RowRead /\ HasTwoPrices(header_row))
          => /\ \E k \in DOMAIN result' :
                   /\ result'[k].source = fpath
                   /\ PriceOfCell(result'[k], row'[UnitPriceAt(header_row)])
             /\ \A k \in DOMAIN result' :
                   (k \notin DOMAIN result \/ result'[k] # result[k])
                     => PriceOfCell(result'[k],
                                    row'[UnitPriceAt(header_row)])]_vars

\* the box price column comes first, and the entry has the unit price 3,5
C23_Witness ==
    /\ pcLoad = "rows" /\ rowNo = 1 /\ HasTwoPrices(header_row)
    /\ UnitPriceAt(header_row) = 5
    /\ Len(row) = 6 /\ row[4] = <<"9">> /\ row[5] = <<"3", ",", "5">>
    /\ \E k \in DOMAIN result :
          /\ result[k].source = fpath
          /\ result[k].price.num * 2 = 7 * result[k].price.den
          /\ result[k].price.den # 0

====
